---- MODULE Spec2Model ----
(***************************************************************************)
(* Model of the onboarding workflow engine of krnl-onboarding-system:      *)
(* OnboardingOrchestrator (backend/orchestrator.py) driving the four       *)
(* agents through BaseAgent.execute (backend/agents/base_agent.py) against *)
(* the tables of backend/models.py.                                        *)
(*                                                                         *)
(* Every invocation of start_onboarding_workflow is a task t.  The tasks   *)
(* run as coroutines (process_bulk_employees gathers them), so the model   *)
(* interleaves them between any two awaited store operations.              *)
(* In Spec the store is available: every commit that violates no           *)
(* constraint succeeds.                                                    *)
(***************************************************************************)
EXTENDS Integers, Sequences, FiniteSets, TLC

\* ---------------------------------------------------------------- bounds
\* number of concurrent invocations of start_onboarding_workflow
NumTasks == 2

Tasks == 1..NumTasks

\* number of messages the sending agent hands to the bus
MaxSends == 2

\* number of messages the broadcasting agent hands to the bus
MaxBroadcasts == 1

\* the e-mail addresses that occur in the inputs
Emails == {"ada@krnl.io", "bob@krnl.io"}

\* the error texts a step's process may raise with
ErrMsgs == {"duplicate username", "date value out of range"}

\* Python's None for a uuid-valued variable or a nullable uuid column
NULL == 0

\* ------------------------------------------------- static configuration
\* OnboardingOrchestrator.workflow_steps; "agent" is the agent_type the
\* step's agent passes to BaseAgent.__init__
WorkflowSteps ==
  << [name |-> "validation", agent |-> "validator",
      status |-> "validation_in_progress",
      completion_status |-> "validation_completed"],
     [name |-> "account_setup", agent |-> "account_setup",
      status |-> "account_setup_in_progress",
      completion_status |-> "account_setup_completed"],
     [name |-> "scheduling", agent |-> "scheduler",
      status |-> "scheduling_in_progress",
      completion_status |-> "scheduling_completed"],
     [name |-> "notification", agent |-> "notifier",
      status |-> "notification_in_progress",
      completion_status |-> "notification_completed"] >>

NSteps == Len(WorkflowSteps)
StepIdx == 1..NSteps

StepName(i) == WorkflowSteps[i].name

\* step["status"] as configured, and the same table with the copy-paste
\* slip of every step announcing itself with the first step's status
InProgressStatus_First(i) == WorkflowSteps[1].status

InProgressStatus(i) == WorkflowSteps[i].status

CompletionStatus(i) == WorkflowSteps[i].completion_status

\* enum WorkflowStatus
WorkflowStatus ==
  {"started", "completed", "failed"}
    \cup {InProgressStatus(i) : i \in StepIdx}
    \cup {CompletionStatus(i) : i \in StepIdx}

\* ------------------------------------------------------------ exceptions
NoExc == [kind |-> "None", msg |-> ""]

\* the errors a step's process raises, told apart by their text
StepErrors == {[kind |-> "StepError", msg |-> m] : m \in ErrMsgs}

\* what the process of step i can raise.  ValidatorAgent.process has no
\* raising path: it reports every finding in the dict it returns.
StepErrorsOf(i) ==
  IF WorkflowSteps[i].agent = "validator" THEN {} ELSE StepErrors

\* employee_data["name"] on an input that lacks a required field
KeyError == [kind |-> "KeyError", msg |-> "'name'"]

\* the store refuses a session, a query or a commit
OperationalError == [kind |-> "OperationalError", msg |-> "connection refused"]

\* commit of an Employee whose email is already stored (unique=True)
IntegrityError == [kind |-> "IntegrityError", msg |-> "duplicate key value"]

\* type(e).__name__ in the place of str(e)
Str_TypeName(e) == e.kind

\* str(e): the text of the error, without its type
Str(e) == e.msg

\* ---------------------------------------------------------------- inputs
\* employee_data: lacks a required field ("missing"), carries every field
\* with a name of one letter, which the validator rejects ("invalid"), or
\* carries every field with values the validator accepts ("all")
EmployeeInputs ==
  {[fields |-> "missing", email |-> ""]}
    \cup {[fields |-> "all", email |-> m] : m \in Emails}
    \cup {[fields |-> "invalid", email |-> m] : m \in Emails}

\* ------------------------------------------------------- process results
\* no value yet
NoResult == [of |-> "", value |-> "None"]

\* the dict the process of step i returns on input d.  The validator
\* reports its verdict in is_valid; the other agents report what they did.
ProcessResult(i, d) ==
  IF WorkflowSteps[i].agent = "validator"
    THEN [of |-> "validator",
          value |-> IF d.fields = "all" THEN "is_valid" ELSE "not_valid"]
    ELSE [of |-> WorkflowSteps[i].agent, value |-> "done"]

VARIABLES
  employee_data,     \* task -> argument of start_onboarding_workflow
  employees,         \* table employees: set of rows [id, email]
  workflows,         \* table onboarding_workflows: id -> row
  agent_logs,        \* table agent_logs: workflow_id (or NULL) -> rows of
                     \*   that workflow in created_at order
  pc,                \* task -> position in start_onboarding_workflow
  step,              \* task -> i of the loop of _execute_workflow
  employee_id,       \* task -> local employee_id
  workflow_id,       \* task -> local workflow_id (NULL until created)
  exc,               \* task -> exception in flight
  workflow_results,  \* task -> names of the steps with a stored result
  accumulated_data,  \* task -> keys of accumulated_data
  ret,               \* task -> outcome of start_onboarding_workflow
  process_calls,     \* task -> steps whose process was invoked, in order
  result,            \* task -> local result of BaseAgent.execute
  step_result,       \* task -> local step_result of _execute_workflow
  audit_lost,        \* task -> number of audit writes that failed
  bulk,              \* outcome of process_bulk_employees
  direct,            \* a caller that invokes an agent's execute itself
  agent_registry,    \* A2ACommunicationBus.agent_registry: name -> info
  queues,            \* Redis lists agent_<name>_queue, head first
  http_calls,        \* the posts made by _send_http_message, in order
  send,              \* the sending agent: its call of send_message
  sent,              \* number of messages created so far
  listen,            \* the agent that runs start_message_listener
  rival,             \* a second receive_messages loop on the same queue
  query,             \* a caller of get_workflow_status
  ser,               \* a call of BaseAgent._serialize_for_json
  notify             \* task -> error of account_setup's call of the
                     \*   scheduler, "none" if none was caught

\* the communication bus and its sending agent
busvars == <<agent_registry, queues, http_calls, send, sent, listen>>

\* the callers and loops beside the workflows and the sending agent
auxvars == <<rival, query, ser, notify>>

\* what the actions of start_onboarding_workflow leave alone
envvars == <<bulk, direct, busvars, auxvars>>

vars == <<employee_data, employees, workflows, agent_logs, pc, step,
          employee_id, workflow_id, exc, workflow_results,
          accumulated_data, ret, process_calls, result, step_result,
          audit_lost, envvars>>

Pending ==
  [kind |-> "pending", status |-> "", workflow_id |-> NULL,
   results |-> {}, exc |-> NoExc]

BulkPending ==
  [kind |-> "pending", total_processed |-> 0, successful |-> 0,
   failed |-> 0, successful_workflows |-> <<>>, failed_workflows |-> <<>>]

\* fake_workflow_id = uuid.uuid4(): an id that no workflow row has
FakeWorkflowId == NumTasks + 1

\* the caller of one agent's execute outside any workflow run
DirectIdle ==
  [pc |-> "idle", agent |-> 1, workflow_id |-> NULL,
   input |-> [fields |-> "all", email |-> "ada@krnl.io"],
   result |-> NoResult, exc |-> NoExc, ret |-> NoResult]

\* the names agents join the bus with
AgentNames == {"account_setup", "scheduler", "notifier"}

\* the agent whose process calls another agent (AccountSetupAgent)
Sender == "account_setup"

\* Python's None where the code has an Optional[str]
NoTarget == "None"

\* A2AMessage before send_message: timestamp is None
NoMessage ==
  [id |-> NULL, method |-> "", params |-> "", message_type |-> "request",
   source_agent |-> "", target_agent |-> "", timestamp |-> NULL]

\* the sending agent before its first call.  results is the dict of
\* _broadcast_message, visited the names its loop has been through, size
\* the number of keys the dict iterator saw when it was created.
SendIdle == [pc |-> "idle", message |-> NoMessage, ret |-> NoResult,
             exc |-> NoExc, results |-> <<>>, visited |-> {}, size |-> 0]

\* the agent whose start_message_listener is followed, before the call.
\* handlers are the methods m for which it has an attribute a2a_<m>,
\* message is the envelope the generator yielded last, log the last line
\* the listener logged, delivered the ids of the yielded envelopes.
ListenOff == [pc |-> "off", handlers |-> {}, message |-> NoMessage,
              log |-> "", delivered |-> <<>>]

\* the second receive loop before it is started: delivered are the ids
\* of the envelopes it has yielded
RivalOff == [pc |-> "off", delivered |-> <<>>]

\* the dict get_workflow_status returns, as far as the store is modelled
NoStatus == [workflow_id |-> NULL, status |-> "", current_step |-> "",
             employee |-> "None", logs |-> <<>>]

\* the caller of get_workflow_status before its call
QueryIdle == [pc |-> "idle", workflow_id |-> NULL, ret |-> NoStatus,
              exc |-> NoExc]

\* a value handed to _serialize_for_json: a leaf with the name of its
\* type and its content
None == [type |-> "NoneType", v |-> "None"]

\* before the call of _serialize_for_json
SerIdle == [pc |-> "idle", data |-> None, out |-> None]

Init ==
  /\ employee_data \in [Tasks -> EmployeeInputs]
  /\ employees = {}
  /\ workflows = [w \in {} |-> 0]
  /\ agent_logs = [w \in {NULL} \cup Tasks |-> <<>>]
  /\ pc = [t \in Tasks |-> "start"]
  /\ step = [t \in Tasks |-> 0]
  /\ employee_id = [t \in Tasks |-> NULL]
  /\ workflow_id = [t \in Tasks |-> NULL]
  /\ exc = [t \in Tasks |-> NoExc]
  /\ workflow_results = [t \in Tasks |-> {}]
  /\ accumulated_data = [t \in Tasks |-> {}]
  /\ ret = [t \in Tasks |-> Pending]
  /\ process_calls = [t \in Tasks |-> <<>>]
  /\ result = [t \in Tasks |-> NoResult]
  /\ step_result = [t \in Tasks |-> NoResult]
  /\ audit_lost = [t \in Tasks |-> 0]
  /\ bulk = BulkPending
  /\ direct = DirectIdle
  /\ agent_registry = [n \in {} |-> 0]
  /\ queues = [n \in AgentNames |-> <<>>]
  /\ http_calls = <<>>
  /\ send = SendIdle
  /\ sent = 0
  /\ listen = ListenOff
  /\ rival = RivalOff
  /\ query = QueryIdle
  /\ ser = SerIdle
  /\ notify = [t \in Tasks |-> "none"]

\* ------------------------------------------------------------- the store
\* the rows of agent_logs that reference workflow w, in created_at order
LogsOf(w) == agent_logs[w]

\* CurrentStepAfter without the account_setup branch
CurrentStepAfter_NoAccountSetup(status, old) ==
  CASE status = "validation_in_progress" -> "validation"
    [] status = "scheduling_in_progress" -> "scheduling"
    [] status = "notification_in_progress" -> "notification"
    [] status = "completed" -> "completed"
    [] status = "failed" -> "failed"
    [] OTHER -> old

\* CurrentStepAfter with branches for the steps only: the terminal
\* statuses leave the column at the last step that was begun
CurrentStepAfter_StepsOnly(status, old) ==
  CASE status = "validation_in_progress" -> "validation"
    [] status = "account_setup_in_progress" -> "account_setup"
    [] status = "scheduling_in_progress" -> "scheduling"
    [] status = "notification_in_progress" -> "notification"
    [] OTHER -> old

\* workflow.current_step after _update_workflow_status wrote status; old
\* is the value stored before.  The completion statuses of the steps have
\* no branch and leave the column alone.
CurrentStepAfter(status, old) ==
  CASE status = "validation_in_progress" -> "validation"
    [] status = "account_setup_in_progress" -> "account_setup"
    [] status = "scheduling_in_progress" -> "scheduling"
    [] status = "notification_in_progress" -> "notification"
    [] status = "completed" -> "completed"
    [] status = "failed" -> "failed"
    [] OTHER -> old

\* UpdateWorkflowStatus whose query has no filter on the id: every row of
\* the table takes the status
UpdateWorkflowStatus_NoFilter(wfs, wid, status) ==
  [w \in DOMAIN wfs |->
     [employee_id |-> wfs[w].employee_id,
      status |-> status,
      current_step |-> CurrentStepAfter(status, wfs[w].current_step)]]

\* _update_workflow_status: the table after the call.  An id with no row
\* is logged and changes nothing.
UpdateWorkflowStatus(wfs, wid, status) ==
  IF wid \in DOMAIN wfs
    THEN [w \in DOMAIN wfs |->
            IF w = wid
              THEN [employee_id |-> wfs[w].employee_id,
                    status |-> status,
                    current_step |->
                      CurrentStepAfter(status, wfs[w].current_step)]
              ELSE wfs[w]]
    ELSE wfs

\* the table after a call of _update_workflow_status.  When the session,
\* the query or the commit fails (lost), both except clauses log the
\* error, the change is rolled back, and the call returns as if it had
\* succeeded.
StatusWrite(lost, wfs, wid, status) ==
  IF lost THEN wfs ELSE UpdateWorkflowStatus(wfs, wid, status)

\* LogEntry that keeps the id it was given, with no lookup of the workflow
LogEntry_KeepRef(wfs, wid, i, status, error_message) ==
  [workflow_id |-> wid,
   agent_type |-> WorkflowSteps[i].agent,
   action |-> "process",
   status |-> status,
   error_message |-> error_message]

\* the AgentLog row _log_execution builds for step i of workflow wid
LogEntry(wfs, wid, i, status, error_message) ==
  [workflow_id |-> IF wid \in DOMAIN wfs THEN wid ELSE NULL,
   agent_type |-> WorkflowSteps[i].agent,
   action |-> "process",
   status |-> status,
   error_message |-> error_message]

\* InsertLog with the commit forgotten: the row never reaches the table
InsertLog_NoCommit(logs, row) == logs

\* InsertLog by a caller that writes the row on the success path and
\* once more in its except clause
InsertLog_Twice(logs, row) ==
  [logs EXCEPT ![row.workflow_id] = Append(Append(@, row), row)]

\* db.add(log_entry); db.commit()
InsertLog(logs, row) ==
  [logs EXCEPT ![row.workflow_id] = Append(@, row)]

\* ------------------------------------------ start_onboarding_workflow
\* CreateEmployeeRecord on a table whose email column is not unique
CreateEmployeeRecord_NoUnique(t) ==
  /\ pc[t] = "start"
  /\ IF employee_data[t].fields = "missing"
       THEN /\ exc' = [exc EXCEPT ![t] = KeyError]
            /\ pc' = [pc EXCEPT ![t] = "start_except"]
            /\ UNCHANGED <<employees, employee_id>>
       ELSE /\ employees' = employees \cup
                  {[id |-> t, email |-> employee_data[t].email]}
            /\ employee_id' = [employee_id EXCEPT ![t] = t]
            /\ pc' = [pc EXCEPT ![t] = "create_workflow"]
            /\ UNCHANGED exc
  /\ UNCHANGED <<employee_data, workflows, agent_logs, step, workflow_id,
                 workflow_results, accumulated_data, ret, process_calls>>
  /\ UNCHANGED <<result, step_result, audit_lost, envvars>>

\* CreateEmployeeRecord that looks the email up first and, when a row has
\* it, inserts nothing and goes on with that row
CreateEmployeeRecord_GetOrCreate(t) ==
  /\ pc[t] = "start"
  /\ IF employee_data[t].fields = "missing"
       THEN /\ exc' = [exc EXCEPT ![t] = KeyError]
            /\ pc' = [pc EXCEPT ![t] = "start_except"]
            /\ UNCHANGED <<employees, employee_id>>
       ELSE IF \E e \in employees : e.email = employee_data[t].email
         THEN /\ employee_id' =
                   [employee_id EXCEPT ![t] =
                      (CHOOSE e \in employees :
                         e.email = employee_data[t].email).id]
              /\ pc' = [pc EXCEPT ![t] = "create_workflow"]
              /\ UNCHANGED <<employees, exc>>
         ELSE /\ employees' = employees \cup
                    {[id |-> t, email |-> employee_data[t].email]}
              /\ employee_id' = [employee_id EXCEPT ![t] = t]
              /\ pc' = [pc EXCEPT ![t] = "create_workflow"]
              /\ UNCHANGED exc
  /\ UNCHANGED <<employee_data, workflows, agent_logs, step, workflow_id,
                 workflow_results, accumulated_data, ret, process_calls>>
  /\ UNCHANGED <<result, step_result, audit_lost, envvars>>

\* _create_employee_record.  uuid4 gives the row an id no other row has;
\* the model names it after the invocation that creates it.
CreateEmployeeRecord(t) ==
  /\ pc[t] = "start"
  /\ IF employee_data[t].fields = "missing"
       THEN /\ exc' = [exc EXCEPT ![t] = KeyError]
            /\ pc' = [pc EXCEPT ![t] = "start_except"]
            /\ UNCHANGED <<employees, employee_id>>
       ELSE IF \E e \in employees : e.email = employee_data[t].email
         THEN /\ exc' = [exc EXCEPT ![t] = IntegrityError]
              /\ pc' = [pc EXCEPT ![t] = "start_except"]
              /\ UNCHANGED <<employees, employee_id>>
         ELSE /\ employees' = employees \cup
                    {[id |-> t, email |-> employee_data[t].email]}
              /\ employee_id' = [employee_id EXCEPT ![t] = t]
              /\ pc' = [pc EXCEPT ![t] = "create_workflow"]
              /\ UNCHANGED exc
  /\ UNCHANGED <<employee_data, workflows, agent_logs, step, workflow_id,
                 workflow_results, accumulated_data, ret, process_calls>>
  /\ UNCHANGED <<result, step_result, audit_lost, envvars>>

\* _create_workflow_record, then the entry of _execute_workflow
CreateWorkflowRecord(t) ==
  /\ pc[t] = "create_workflow"
  /\ workflows' =
       [w \in DOMAIN workflows \cup {t} |->
          IF w = t
            THEN [employee_id |-> employee_id[t],
                  status |-> "started",
                  current_step |-> "validation"]
            ELSE workflows[w]]
  /\ workflow_id' = [workflow_id EXCEPT ![t] = t]
  /\ accumulated_data' =
       [accumulated_data EXCEPT ![t] = {"employee_data", "employee_id"}]
  /\ step' = [step EXCEPT ![t] = 1]
  /\ pc' = [pc EXCEPT ![t] = "step_begin"]
  /\ UNCHANGED <<employee_data, employees, agent_logs, employee_id, exc,
                 workflow_results, ret, process_calls>>
  /\ UNCHANGED <<result, step_result, audit_lost, envvars>>

\* ---------------------------------------------------- _execute_workflow
\* top of the loop body: the step's in-progress status is written, the
\* agent is present and has execute, and execute is entered
StepBeginWith(t, lost) ==
  /\ pc[t] = "step_begin"
  /\ workflows' =
       StatusWrite(lost, workflows, workflow_id[t],
                   InProgressStatus(step[t]))
  /\ pc' = [pc EXCEPT ![t] = "process"]
  /\ UNCHANGED <<employee_data, employees, agent_logs, step, employee_id,
                 workflow_id, exc, workflow_results, accumulated_data, ret,
                 process_calls>>
  /\ UNCHANGED <<result, step_result, audit_lost, envvars>>

\* StepBeginWith when its status write reaches the store
StepBegin(t) == StepBeginWith(t, FALSE)

\* BaseAgent.execute: result = await self.process(input_data), which
\* returns a result or raises
Process(t) ==
  /\ pc[t] = "process"
  /\ process_calls' =
       [process_calls EXCEPT ![t] = Append(@, StepName(step[t]))]
  /\ \/ /\ result' =
             [result EXCEPT ![t] = ProcessResult(step[t], employee_data[t])]
        /\ pc' = [pc EXCEPT ![t] = "log_success"]
        /\ UNCHANGED exc
     \/ \E e \in StepErrorsOf(step[t]) :
          /\ exc' = [exc EXCEPT ![t] = e]
          /\ pc' = [pc EXCEPT ![t] = "log_failed"]
          /\ UNCHANGED result
  /\ UNCHANGED <<employee_data, employees, workflows, agent_logs, step,
                 employee_id, workflow_id, workflow_results,
                 accumulated_data, ret>>
  /\ UNCHANGED <<step_result, audit_lost, envvars>>

\* BaseAgent.execute after process returned: the success record is
\* written and the result is returned to _execute_workflow
LogSuccess(t) ==
  /\ pc[t] = "log_success"
  /\ agent_logs' =
       InsertLog(agent_logs,
                 LogEntry(workflows, workflow_id[t], step[t], "success", ""))
  /\ step_result' = [step_result EXCEPT ![t] = result[t]]
  /\ pc' = [pc EXCEPT ![t] = "step_complete"]
  /\ UNCHANGED <<employee_data, employees, workflows, step, employee_id,
                 workflow_id, exc, workflow_results, accumulated_data, ret,
                 process_calls>>
  /\ UNCHANGED <<result, audit_lost, envvars>>

\* LogFailed that raises again without writing the failed record
LogFailed_NoRecord(t) ==
  /\ pc[t] = "log_failed"
  /\ pc' = [pc EXCEPT ![t] = "step_except"]
  /\ UNCHANGED <<employee_data, employees, workflows, agent_logs, step,
                 employee_id, workflow_id, exc, workflow_results,
                 accumulated_data, ret, process_calls>>
  /\ UNCHANGED <<result, step_result, audit_lost, envvars>>

\* BaseAgent.execute after process raised: the failed record is written
\* with str(e) and the error is raised again
LogFailed(t) ==
  /\ pc[t] = "log_failed"
  /\ agent_logs' =
       InsertLog(agent_logs,
                 LogEntry(workflows, workflow_id[t], step[t], "failed",
                          Str(exc[t])))
  /\ pc' = [pc EXCEPT ![t] = "step_except"]
  /\ UNCHANGED <<employee_data, employees, workflows, step, employee_id,
                 workflow_id, exc, workflow_results, accumulated_data, ret,
                 process_calls>>
  /\ UNCHANGED <<result, step_result, audit_lost, envvars>>

\* PromotedKeys without the special handling of account_setup and
\* scheduling
PromotedKeys_ResultOnly(name) == {name \o "_result"}

\* the keys a successful step adds to accumulated_data
PromotedKeys(name) ==
  {name \o "_result"}
    \cup (IF name = "account_setup"
            THEN {"account_data", "username", "permissions"} ELSE {})
    \cup (IF name = "scheduling" THEN {"calendar_data"} ELSE {})

\* rest of the try body: the result is stored and merged, the step's
\* completion status is written, and the loop goes on or ends
StepCompleteWith(t, lost) ==
  /\ pc[t] = "step_complete"
  /\ workflow_results' =
       [workflow_results EXCEPT ![t] = @ \cup {StepName(step[t])}]
  /\ accumulated_data' =
       [accumulated_data EXCEPT ![t] = @ \cup PromotedKeys(StepName(step[t]))]
  /\ workflows' =
       StatusWrite(lost, workflows, workflow_id[t],
                   CompletionStatus(step[t]))
  /\ IF step[t] < NSteps
       THEN /\ step' = [step EXCEPT ![t] = @ + 1]
            /\ pc' = [pc EXCEPT ![t] = "step_begin"]
       ELSE /\ pc' = [pc EXCEPT ![t] = "finalize"]
            /\ UNCHANGED step
  /\ UNCHANGED <<employee_data, employees, agent_logs, employee_id,
                 workflow_id, exc, ret, process_calls>>
  /\ UNCHANGED <<result, step_result, audit_lost, envvars>>

\* StepCompleteWith when its status write reaches the store
StepComplete(t) == StepCompleteWith(t, FALSE)

\* StepExcept that tries the failed step once more instead of raising
StepExcept_Retry(t) ==
  /\ pc[t] = "step_except"
  /\ workflows' = UpdateWorkflowStatus(workflows, workflow_id[t], "failed")
  /\ exc' = [exc EXCEPT ![t] = NoExc]
  /\ pc' = [pc EXCEPT ![t] =
               IF Len(process_calls[t]) <= NSteps THEN "step_begin"
               ELSE "start_except"]
  /\ UNCHANGED <<employee_data, employees, agent_logs, step, employee_id,
                 workflow_id, workflow_results, accumulated_data, ret,
                 process_calls>>
  /\ UNCHANGED <<result, step_result, audit_lost, envvars>>

\* except clause of the loop body: FAILED is written, the error is raised
StepExceptWith(t, lost) ==
  /\ pc[t] = "step_except"
  /\ workflows' = StatusWrite(lost, workflows, workflow_id[t],
                              "failed")
  /\ pc' = [pc EXCEPT ![t] = "start_except"]
  /\ UNCHANGED <<employee_data, employees, agent_logs, step, employee_id,
                 workflow_id, exc, workflow_results, accumulated_data, ret,
                 process_calls>>
  /\ UNCHANGED <<result, step_result, audit_lost, envvars>>

\* StepExceptWith when its status write reaches the store
StepExcept(t) == StepExceptWith(t, FALSE)

\* ------------------------------- start_onboarding_workflow, its two ends
\* Finalize in which building the result raises after COMPLETED was
\* written, so that the except clause runs
Finalize_ResultRaises(t) ==
  /\ pc[t] = "finalize"
  /\ workflows' = UpdateWorkflowStatus(workflows, workflow_id[t], "completed")
  /\ exc' = [exc EXCEPT ![t] = KeyError]
  /\ pc' = [pc EXCEPT ![t] = "start_except"]
  /\ UNCHANGED <<employee_data, employees, agent_logs, step, employee_id,
                 workflow_id, workflow_results, accumulated_data, ret,
                 process_calls>>
  /\ UNCHANGED <<result, step_result, audit_lost, envvars>>

\* after _execute_workflow returned: COMPLETED is written and the result
\* is returned
FinalizeWith(t, lost) ==
  /\ pc[t] = "finalize"
  /\ workflows' = StatusWrite(lost, workflows, workflow_id[t],
                              "completed")
  /\ ret' = [ret EXCEPT ![t] =
               [kind |-> "return", status |-> "completed",
                workflow_id |-> workflow_id[t],
                results |-> workflow_results[t], exc |-> NoExc]]
  /\ pc' = [pc EXCEPT ![t] = "returned"]
  /\ UNCHANGED <<employee_data, employees, agent_logs, step, employee_id,
                 workflow_id, exc, workflow_results, accumulated_data,
                 process_calls>>
  /\ UNCHANGED <<result, step_result, audit_lost, envvars>>

\* FinalizeWith when its status write reaches the store
Finalize(t) == FinalizeWith(t, FALSE)

\* StartExcept that swallows the error and returns what was collected
StartExcept_Swallow(t) ==
  /\ pc[t] = "start_except"
  /\ workflows' =
       IF workflow_id[t] # NULL
         THEN UpdateWorkflowStatus(workflows, workflow_id[t], "failed")
         ELSE workflows
  /\ ret' = [ret EXCEPT ![t] =
               [kind |-> "return", status |-> "failed",
                workflow_id |-> workflow_id[t],
                results |-> workflow_results[t], exc |-> NoExc]]
  /\ pc' = [pc EXCEPT ![t] = "returned"]
  /\ UNCHANGED <<employee_data, employees, agent_logs, step, employee_id,
                 workflow_id, exc, workflow_results, accumulated_data,
                 process_calls>>
  /\ UNCHANGED <<result, step_result, audit_lost, envvars>>

\* except clause of start_onboarding_workflow: FAILED is written when the
\* workflow record exists, and the error is raised to the caller
StartExceptWith(t, lost) ==
  /\ pc[t] = "start_except"
  /\ workflows' =
       IF workflow_id[t] # NULL
         THEN StatusWrite(lost, workflows, workflow_id[t],
                          "failed")
         ELSE workflows
  /\ ret' = [ret EXCEPT ![t] =
               [kind |-> "raise", status |-> "", workflow_id |-> NULL,
                results |-> {}, exc |-> exc[t]]]
  /\ pc' = [pc EXCEPT ![t] = "raised"]
  /\ UNCHANGED <<employee_data, employees, agent_logs, step, employee_id,
                 workflow_id, exc, workflow_results, accumulated_data,
                 process_calls>>
  /\ UNCHANGED <<result, step_result, audit_lost, envvars>>

\* StartExceptWith when its status write reaches the store
StartExcept(t) == StartExceptWith(t, FALSE)

\* ------------------------------------------------ process_bulk_employees
\* results of asyncio.gather(*tasks, return_exceptions=True), in the
\* order of employees_data, each beside the input of its item
GatherResults ==
  [i \in 1..NumTasks |-> [employee_data |-> employee_data[i],
                         result |-> ret[i]]]

\* isinstance(result, Exception)
IsException(item) == item.result.kind = "raise"

IsWorkflowResult(item) == item.result.kind = "return"

\* the loop over enumerate(results) and the dict that is returned
BulkResult(items) ==
  LET failedItems == SelectSeq(items, IsException)
      successfulItems == SelectSeq(items, IsWorkflowResult)
      successful == [j \in 1..Len(successfulItems) |->
                       successfulItems[j].result]
      failed == [j \in 1..Len(failedItems) |->
                   [employee_data |-> failedItems[j].employee_data,
                    error |-> Str(failedItems[j].result.exc)]]
  IN  [kind |-> "return",
       total_processed |-> Len(items),
       successful |-> Len(successful),
       failed |-> Len(failed),
       successful_workflows |-> successful,
       failed_workflows |-> failed]

\* ProcessBulkReturn over a gather that raises the first error of an item
ProcessBulkReturn_Propagate ==
  /\ bulk.kind = "pending"
  /\ \A t \in Tasks : pc[t] \in {"returned", "raised"}
  /\ bulk' = IF \E t \in Tasks : pc[t] = "raised"
               THEN [BulkPending EXCEPT !.kind = "raise"]
               ELSE BulkResult(GatherResults)
  /\ UNCHANGED <<employee_data, employees, workflows, agent_logs, pc, step,
                 employee_id, workflow_id, exc, workflow_results,
                 accumulated_data, ret, process_calls, result, step_result,
                 audit_lost, direct, busvars, auxvars>>

\* process_bulk_employees once every start_onboarding_workflow it
\* gathered has returned or raised
ProcessBulkReturn ==
  /\ bulk.kind = "pending"
  /\ \A t \in Tasks : pc[t] \in {"returned", "raised"}
  /\ bulk' = BulkResult(GatherResults)
  /\ UNCHANGED <<employee_data, employees, workflows, agent_logs, pc, step,
                 employee_id, workflow_id, exc, workflow_results,
                 accumulated_data, ret, process_calls, result, step_result,
                 audit_lost, direct, busvars, auxvars>>

Next ==
  \/ \E t \in Tasks :
       \/ CreateEmployeeRecord(t)
       \/ CreateWorkflowRecord(t)
       \/ StepBegin(t)
       \/ Process(t)
       \/ LogSuccess(t)
       \/ LogFailed(t)
       \/ StepComplete(t)
       \/ StepExcept(t)
       \/ Finalize(t)
       \/ StartExcept(t)
  \/ ProcessBulkReturn

Spec == Init /\ [][Next]_vars

\* ------------------------------------------------ the store unavailable
\* one invocation has an input with its fields; the others fail on
\* theirs before they reach the store
OneWorkflow ==
  /\ employee_data[1].email \in {"", "ada@krnl.io"}
  /\ \A t \in Tasks : t > 1 => employee_data[t].fields = "missing"

InitOne == Init /\ OneWorkflow

\* LogSuccessLost in which the error of the audit write leaves
\* _log_execution and reaches the except clause of execute
LogSuccessLost_Raises(t) ==
  /\ pc[t] = "log_success"
  /\ audit_lost' = [audit_lost EXCEPT ![t] = @ + 1]
  /\ exc' = [exc EXCEPT ![t] = OperationalError]
  /\ pc' = [pc EXCEPT ![t] = "log_failed"]
  /\ UNCHANGED <<employee_data, employees, workflows, agent_logs, step,
                 employee_id, workflow_id, workflow_results,
                 accumulated_data, ret, process_calls, result, step_result,
                 envvars>>

\* _log_execution on the success path when the session, the workflow
\* lookup or the commit fails: both except clauses log the error and
\* return, no row is stored, and execute returns the result
LogSuccessLost(t) ==
  /\ pc[t] = "log_success"
  /\ audit_lost' = [audit_lost EXCEPT ![t] = @ + 1]
  /\ step_result' = [step_result EXCEPT ![t] = result[t]]
  /\ pc' = [pc EXCEPT ![t] = "step_complete"]
  /\ UNCHANGED <<employee_data, employees, workflows, agent_logs, step,
                 employee_id, workflow_id, exc, workflow_results,
                 accumulated_data, ret, process_calls, result, envvars>>

\* the same on the failure path: no row is stored and execute raises the
\* error of process again
LogFailedLost(t) ==
  /\ pc[t] = "log_failed"
  /\ audit_lost' = [audit_lost EXCEPT ![t] = @ + 1]
  /\ pc' = [pc EXCEPT ![t] = "step_except"]
  /\ UNCHANGED <<employee_data, employees, workflows, agent_logs, step,
                 employee_id, workflow_id, exc, workflow_results,
                 accumulated_data, ret, process_calls, result, step_result,
                 envvars>>

\* ---------------------------------------------------- get_workflow_status
\* the entry of "logs" for a row of agent_logs
LogView(row) ==
  [agent_type |-> row.agent_type, action |-> row.action,
   status |-> row.status]

\* StatusOf that lists the records newest first
StatusOf_NewestFirst(wfs, emps, logs, w) ==
  [workflow_id |-> w,
   status |-> wfs[w].status,
   current_step |-> wfs[w].current_step,
   employee |-> IF \E e \in emps : e.id = wfs[w].employee_id
                  THEN (CHOOSE e \in emps : e.id = wfs[w].employee_id).email
                  ELSE "None",
   logs |-> [k \in 1..Len(logs) |-> LogView(logs[Len(logs) + 1 - k])]]

\* the dict get_workflow_status builds for the row w of wfs, the rows emps
\* of employees, and the rows logs of agent_logs with workflow_id = w in
\* created_at order
StatusOf(wfs, emps, logs, w) ==
  [workflow_id |-> w,
   status |-> wfs[w].status,
   current_step |-> wfs[w].current_step,
   employee |-> IF \E e \in emps : e.id = wfs[w].employee_id
                  THEN (CHOOSE e \in emps : e.id = wfs[w].employee_id).email
                  ELSE "None",
   logs |-> [k \in 1..Len(logs) |-> LogView(logs[k])]]

\* the workflow ids get_workflow_status is asked for: those a run may
\* have created and one that no run creates
QueryIds == Tasks \cup {FakeWorkflowId}

\* get_workflow_status(w): ValueError when no row has the id, else the
\* dict; the session is only queried and closed
GetWorkflowStatus(w) ==
  /\ query' =
       IF w \notin DOMAIN workflows
         THEN [pc |-> "raised", workflow_id |-> w, ret |-> NoStatus,
               exc |-> [kind |-> "ValueError", msg |-> "Workflow not found"]]
         ELSE [pc |-> "returned", workflow_id |-> w,
               ret |-> StatusOf(workflows, employees,
                                IF w \in DOMAIN agent_logs
                                  THEN LogsOf(w) ELSE <<>>, w),
               exc |-> NoExc]
  /\ UNCHANGED <<employee_data, employees, workflows, agent_logs, pc, step,
                 employee_id, workflow_id, exc, workflow_results,
                 accumulated_data, ret, process_calls, result, step_result,
                 audit_lost, bulk, direct, busvars, rival, ser, notify>>

\* one workflow and a caller that asks for statuses while it runs
NextStatus ==
  \/ Next
  \/ \E w \in QueryIds : GetWorkflowStatus(w)

SpecStatus == InitOne /\ [][NextStatus]_vars

\* ------------------------------------- AccountSetupAgent.process and A2A
\* the errors of "await self.call_agent(target_agent="scheduler", ...)":
\* the agent has no attribute call_agent (AccountSetupAgent derives from
\* BaseAgent only), the scheduler is not registered, the post fails, the
\* queue push fails
NotifyErrors ==
  {[kind |-> "AttributeError",
    msg |-> "'AccountSetupAgent' object has no attribute 'call_agent'"],
   [kind |-> "ValueError", msg |-> "Target agent scheduler not registered"],
   [kind |-> "HTTPError", msg |-> "request failed"],
   [kind |-> "ConnectionError", msg |-> "Error connecting to redis"]}

\* NotifyFailed without the try around call_agent
NotifyFailed_Raises(e) == "raised"

\* "except Exception as e: self.logger.warning(...)" around call_agent:
\* the error is caught and process goes on to build its result
NotifyFailed(e) == "caught"

\* process of account_setup when the account was created and the call of
\* the scheduler fails
ProcessNotifyFails(t) ==
  /\ pc[t] = "process"
  /\ StepName(step[t]) = "account_setup"
  /\ process_calls' =
       [process_calls EXCEPT ![t] = Append(@, StepName(step[t]))]
  /\ \E e \in NotifyErrors :
       /\ notify' = [notify EXCEPT ![t] = e.kind]
       /\ IF NotifyFailed(e) = "caught"
            THEN /\ result' = [result EXCEPT
                      ![t] = ProcessResult(step[t], employee_data[t])]
                 /\ pc' = [pc EXCEPT ![t] = "log_success"]
                 /\ UNCHANGED exc
            ELSE /\ exc' = [exc EXCEPT ![t] = e]
                 /\ pc' = [pc EXCEPT ![t] = "log_failed"]
                 /\ UNCHANGED result
  /\ UNCHANGED <<employee_data, employees, workflows, agent_logs, step,
                 employee_id, workflow_id, workflow_results,
                 accumulated_data, ret>>
  /\ UNCHANGED <<step_result, audit_lost, bulk, direct, busvars, rival,
                 query, ser>>

\* one workflow whose account_setup step may fail to reach the scheduler
NextNotify ==
  \/ Next
  \/ \E t \in Tasks : ProcessNotifyFails(t)

SpecNotify == InitOne /\ [][NextNotify]_vars

\* the errors of the agent check at the top of the try of a step
AgentErrors ==
  {[kind |-> "ValueError", msg |-> "Agent for step is None"],
   [kind |-> "ValueError",
    msg |-> "Agent for step does not have execute method"]}

\* StepBeginNoAgent that logs the missing agent and goes on with the
\* next step
StepBeginNoAgent_Skip(t) ==
  /\ pc[t] = "step_begin"
  /\ workflows' =
       UpdateWorkflowStatus(workflows, workflow_id[t],
                            InProgressStatus(step[t]))
  /\ IF step[t] < NSteps
       THEN /\ step' = [step EXCEPT ![t] = @ + 1]
            /\ pc' = [pc EXCEPT ![t] = "step_begin"]
       ELSE /\ pc' = [pc EXCEPT ![t] = "finalize"]
            /\ UNCHANGED step
  /\ UNCHANGED <<employee_data, employees, agent_logs, employee_id,
                 workflow_id, exc, workflow_results, accumulated_data, ret,
                 process_calls>>
  /\ UNCHANGED <<result, step_result, audit_lost, envvars>>

\* top of the loop body for a step whose agent is None or has no
\* execute: the in-progress status is written, the check raises
\* ValueError inside the try, and the except clause of the loop is next
StepBeginNoAgent(t) ==
  /\ pc[t] = "step_begin"
  /\ workflows' =
       UpdateWorkflowStatus(workflows, workflow_id[t],
                            InProgressStatus(step[t]))
  /\ \E e \in AgentErrors : exc' = [exc EXCEPT ![t] = e]
  /\ pc' = [pc EXCEPT ![t] = "step_except"]
  /\ UNCHANGED <<employee_data, employees, agent_logs, step, employee_id,
                 workflow_id, workflow_results, accumulated_data, ret,
                 process_calls>>
  /\ UNCHANGED <<result, step_result, audit_lost, envvars>>

\* one workflow over a list of steps in which any agent may be missing
NextAgents ==
  \/ Next
  \/ \E t \in Tasks : StepBeginNoAgent(t)

SpecAgents == InitOne /\ [][NextAgents]_vars

\* CreateWorkflowRecordFails that takes the employee row back
CreateWorkflowRecordFails_Compensate(t) ==
  /\ pc[t] = "create_workflow"
  /\ employees' = {e \in employees : e.id # employee_id[t]}
  /\ exc' = [exc EXCEPT ![t] = OperationalError]
  /\ pc' = [pc EXCEPT ![t] = "start_except"]
  /\ UNCHANGED <<employee_data, workflows, agent_logs, step, employee_id,
                 workflow_id, workflow_results, accumulated_data, ret,
                 process_calls>>
  /\ UNCHANGED <<result, step_result, audit_lost, envvars>>

\* _create_workflow_record when the session or the commit fails: the
\* insert is rolled back and the error raised, so that workflow_id of
\* start_onboarding_workflow is still None in its except clause
CreateWorkflowRecordFails(t) ==
  /\ pc[t] = "create_workflow"
  /\ exc' = [exc EXCEPT ![t] = OperationalError]
  /\ pc' = [pc EXCEPT ![t] = "start_except"]
  /\ UNCHANGED <<employee_data, employees, workflows, agent_logs, step,
                 employee_id, workflow_id, workflow_results,
                 accumulated_data, ret, process_calls>>
  /\ UNCHANGED <<result, step_result, audit_lost, envvars>>

\* the status-writing steps of a run when their write fails
StepBeginLost(t) == StepBeginWith(t, TRUE)

StepCompleteLost(t) == StepCompleteWith(t, TRUE)

StepExceptLost(t) == StepExceptWith(t, TRUE)

FinalizeLost(t) == FinalizeWith(t, TRUE)

StartExceptLost(t) ==
  /\ workflow_id[t] # NULL
  /\ StartExceptWith(t, TRUE)

\* one workflow over a store whose writes to onboarding_workflows may fail
NextStoreFault ==
  \/ Next
  \/ \E t \in Tasks :
       \/ CreateWorkflowRecordFails(t)
       \/ StepBeginLost(t)
       \/ StepCompleteLost(t)
       \/ StepExceptLost(t)
       \/ FinalizeLost(t)
       \/ StartExceptLost(t)

SpecStoreFault == InitOne /\ [][NextStoreFault]_vars

NextFault ==
  \/ Next
  \/ \E t \in Tasks :
       \/ LogSuccessLost(t)
       \/ LogFailedLost(t)

SpecFault == InitOne /\ [][NextFault]_vars

\* --------------------------------------- execute called outside a run
\* agent.execute(workflow_id, data) by a caller that holds an agent: the
\* id is the fake one or the id of a stored workflow
DirectStart ==
  /\ direct.pc = "idle"
  /\ \E i \in StepIdx, w \in {FakeWorkflowId} \cup DOMAIN workflows,
        f \in {"all", "invalid"} :
       /\ WorkflowSteps[i].agent # "validator" => f = "all"
       /\ direct' = [direct EXCEPT !.pc = "process", !.agent = i,
                                   !.workflow_id = w, !.input.fields = f]
  /\ UNCHANGED <<employee_data, employees, workflows, agent_logs, pc, step,
                 employee_id, workflow_id, exc, workflow_results,
                 accumulated_data, ret, process_calls, result, step_result,
                 audit_lost, bulk, busvars, auxvars>>

\* result = await self.process(input_data), or its error
DirectProcess ==
  /\ direct.pc = "process"
  /\ \/ direct' = [direct EXCEPT
                     !.pc = "log_success",
                     !.result = ProcessResult(direct.agent, direct.input)]
     \/ \E e \in StepErrorsOf(direct.agent) :
          direct' = [direct EXCEPT !.pc = "log_failed", !.exc = e]
  /\ UNCHANGED <<employee_data, employees, workflows, agent_logs, pc, step,
                 employee_id, workflow_id, exc, workflow_results,
                 accumulated_data, ret, process_calls, result, step_result,
                 audit_lost, bulk, busvars, auxvars>>

\* _log_execution(.., "success", None, ..); return result
DirectLogSuccess ==
  /\ direct.pc = "log_success"
  /\ agent_logs' =
       InsertLog(agent_logs,
                 LogEntry(workflows, direct.workflow_id, direct.agent,
                          "success", ""))
  /\ direct' = [direct EXCEPT !.pc = "returned", !.ret = direct.result]
  /\ UNCHANGED <<employee_data, employees, workflows, pc, step,
                 employee_id, workflow_id, exc, workflow_results,
                 accumulated_data, ret, process_calls, result, step_result,
                 audit_lost, bulk, busvars, auxvars>>

\* _log_execution(.., "failed", str(e), ..); raise
DirectLogFailed ==
  /\ direct.pc = "log_failed"
  /\ agent_logs' =
       InsertLog(agent_logs,
                 LogEntry(workflows, direct.workflow_id, direct.agent,
                          "failed", Str(direct.exc)))
  /\ direct' = [direct EXCEPT !.pc = "raised"]
  /\ UNCHANGED <<employee_data, employees, workflows, pc, step,
                 employee_id, workflow_id, exc, workflow_results,
                 accumulated_data, ret, process_calls, result, step_result,
                 audit_lost, bulk, busvars, auxvars>>

NextDirect ==
  \/ Next
  \/ DirectStart
  \/ DirectProcess
  \/ DirectLogSuccess
  \/ DirectLogFailed

SpecDirect == InitOne /\ [][NextDirect]_vars

\* -------------------------------------------------- A2ACommunicationBus
\* "http_endpoint" of the info A2AAgent.__init__ registers
Endpoint(a) == "/api/v1/agents/" \o a \o "/a2a"

\* the infos register_agent is called with: without and with an endpoint
AgentInfos(a) ==
  {[name |-> a], [name |-> a, http_endpoint |-> Endpoint(a)]}

\* the results a called agent answers a post with
Responses == {"accepted", "ignored"}

\* f"agent_{target_agent}_queue"
QueueName(a) == "agent_" \o a \o "_queue"

\* A2AMessage.to_dict
ToDict(m) ==
  [jsonrpc |-> "2.0",
   id |-> m.id,
   method |-> m.method,
   params |-> m.params,
   metadata |-> [message_type |-> m.message_type,
                 source_agent |-> m.source_agent,
                 target_agent |-> m.target_agent,
                 timestamp |-> m.timestamp]]

\* DirectRoute with no look at the registry's keys: a name without an
\* entry is served from its queue
DirectRoute_NoCheck(reg, target) ==
  IF target \in DOMAIN reg /\ "http_endpoint" \in DOMAIN reg[target]
    THEN "http"
    ELSE "queue"

\* DirectRoute that prefers the queue of a registered name to its endpoint
DirectRoute_QueueFirst(reg, target) ==
  IF target \notin DOMAIN reg THEN "unregistered" ELSE "queue"

\* the branch _send_direct_message takes for a target
DirectRoute(reg, target) ==
  IF target \notin DOMAIN reg
    THEN "unregistered"
    ELSE IF "http_endpoint" \in DOMAIN reg[target]
      THEN "http"
      ELSE "queue"

\* Registered that updates an existing entry key by key, so that a key
\* the new info lacks survives
Registered_Merge(reg, a, info) ==
  [n \in DOMAIN reg \cup {a} |->
     IF n # a THEN reg[n]
     ELSE IF a \notin DOMAIN reg THEN info
     ELSE [k \in DOMAIN reg[a] \cup DOMAIN info |->
             IF k \in DOMAIN info THEN info[k] ELSE reg[a][k]]]

\* "self.agent_registry[agent_name] = {**agent_info, "last_seen": ...}":
\* the registry after the assignment.  last_seen, which nothing reads, is
\* left out.
Registered(reg, a, info) ==
  [n \in DOMAIN reg \cup {a} |-> IF n = a THEN info ELSE reg[n]]

\* register_agent: the entry of the name is set to the info.  last_seen,
\* which nothing reads, is left out.  The call runs while the sending
\* agent is suspended or between its calls, never inside the loop of
\* _broadcast_message, which runs on between two awaits.
RegisterAgent(a, info) ==
  /\ send.pc # "broadcast_loop"
  /\ agent_registry' = Registered(agent_registry, a, info)
  /\ UNCHANGED <<queues, http_calls, send, sent>>
  /\ UNCHANGED <<employee_data, employees, workflows, agent_logs, pc, step,
                 employee_id, workflow_id, exc, workflow_results,
                 accumulated_data, ret, process_calls, result, step_result,
                 audit_lost, bulk, direct, listen, auxvars>>

\* A2AAgent.call_agent up to its call of send_message: a message with a
\* fresh id and the target set
CallAgent(target) ==
  /\ send.pc \in {"idle", "returned", "raised"}
  /\ sent < MaxSends
  /\ sent' = sent + 1
  /\ send' = [pc |-> "send_message",
              message |-> [id |-> sent + 1,
                           method |-> "account_created_notification",
                           params |-> "employee_id",
                           message_type |-> "request",
                           source_agent |-> Sender,
                           target_agent |-> target,
                           timestamp |-> NULL],
              ret |-> NoResult,
              exc |-> NoExc,
              results |-> <<>>,
              visited |-> {},
              size |-> 0]
  /\ UNCHANGED <<agent_registry, queues, http_calls>>
  /\ UNCHANGED <<employee_data, employees, workflows, agent_logs, pc, step,
                 employee_id, workflow_id, exc, workflow_results,
                 accumulated_data, ret, process_calls, result, step_result,
                 audit_lost, bulk, direct, listen, auxvars>>

\* send_message with a target, through _send_direct_message: the
\* timestamp is set, then the target is refused, posted to, or queued
\* (lpush) with the acknowledgment returned
SendDirectMessage ==
  /\ send.pc = "send_message"
  /\ send.message.target_agent # NoTarget
  /\ LET message == [send.message EXCEPT !.timestamp = sent]
         target_agent == message.target_agent
         route == DirectRoute(agent_registry, target_agent)
     IN  CASE route = "unregistered" ->
                /\ send' = [send EXCEPT
                     !.pc = "raised",
                     !.message = message,
                     !.exc = [kind |-> "ValueError",
                              msg |-> "Target agent " \o target_agent
                                        \o " not registered"]]
                /\ UNCHANGED <<queues, http_calls>>
           [] route = "http" ->
                /\ http_calls' =
                     Append(http_calls,
                            [endpoint |->
                               agent_registry[target_agent].http_endpoint,
                             json |-> ToDict(message),
                             response |-> ""])
                /\ send' = [send EXCEPT !.pc = "http_wait",
                                        !.message = message]
                /\ UNCHANGED queues
           [] route = "queue" ->
                /\ queues' = [queues EXCEPT ![target_agent] =
                                <<ToDict(message)>> \o @]
                /\ send' = [send EXCEPT
                     !.pc = "returned",
                     !.message = message,
                     !.ret = [status |-> "queued",
                              queue |-> QueueName(target_agent)]]
                /\ UNCHANGED http_calls
  /\ UNCHANGED <<agent_registry, sent>>
  /\ UNCHANGED <<employee_data, employees, workflows, agent_logs, pc, step,
                 employee_id, workflow_id, exc, workflow_results,
                 accumulated_data, ret, process_calls, result, step_result,
                 audit_lost, bulk, direct, listen, auxvars>>

\* _send_http_message after the post: the called agent answers and
\* response.json() is returned
HttpResponse ==
  /\ send.pc = "http_wait"
  /\ \E r \in Responses :
       /\ http_calls' = [http_calls EXCEPT ![Len(http_calls)].response = r]
       /\ send' = [send EXCEPT
            !.pc = "returned",
            !.ret = [jsonrpc |-> "2.0", id |-> send.message.id,
                     result |-> r]]
  /\ UNCHANGED <<agent_registry, queues, sent>>
  /\ UNCHANGED <<employee_data, employees, workflows, agent_logs, pc, step,
                 employee_id, workflow_id, exc, workflow_results,
                 accumulated_data, ret, process_calls, result, step_result,
                 audit_lost, bulk, direct, listen, auxvars>>

\* DirectFailed with the error turned into a returned value
DirectFailed_AsResult(s, kind, msg) ==
  [s EXCEPT !.pc = "returned", !.ret = [error |-> msg]]

\* an error of _send_http_message or _send_queue_message inside
\* _send_direct_message: it has no handler there, send_message logs it
\* and re-raises ("except Exception as e: ... raise"), call_agent has no
\* handler, so the exception leaves the call
DirectFailed(s, kind, msg) ==
  [s EXCEPT !.pc = "raised", !.exc = [kind |-> kind, msg |-> msg]]

\* _send_http_message after the post: the post fails or
\* raise_for_status raises, and the error reaches the sender
HttpError ==
  /\ send.pc = "http_wait"
  /\ http_calls' = [http_calls EXCEPT ![Len(http_calls)].response = "error"]
  /\ send' = DirectFailed(send, "HTTPError", "request failed")
  /\ UNCHANGED <<agent_registry, queues, sent>>
  /\ UNCHANGED <<employee_data, employees, workflows, agent_logs, pc, step,
                 employee_id, workflow_id, exc, workflow_results,
                 accumulated_data, ret, process_calls, result, step_result,
                 audit_lost, bulk, direct, listen, auxvars>>

\* ---------------------------------------------------- _broadcast_message
\* d[k] = v on a dict
Put(d, k, v) == [n \in DOMAIN d \cup {k} |-> IF n = k THEN v ELSE d[n]]

\* IsRecipient that lets the source receive its own broadcast
IsRecipient_All(agent_name, message) == TRUE

\* "if agent_name != message.source_agent": don't send to self
IsRecipient(agent_name, message) == agent_name # message.source_agent

\* A2AAgent.broadcast_event up to its call of send_message: a message
\* with a fresh id and no target
BroadcastEvent ==
  /\ send.pc \in {"idle", "returned", "raised"}
  /\ sent < MaxBroadcasts
  /\ sent' = sent + 1
  /\ send' = [pc |-> "send_message",
              message |-> [id |-> sent + 1,
                           method |-> "broadcast_event",
                           params |-> "event",
                           message_type |-> "notification",
                           source_agent |-> Sender,
                           target_agent |-> NoTarget,
                           timestamp |-> NULL],
              ret |-> NoResult,
              exc |-> NoExc,
              results |-> <<>>,
              visited |-> {},
              size |-> 0]
  /\ UNCHANGED <<agent_registry, queues, http_calls>>
  /\ UNCHANGED <<employee_data, employees, workflows, agent_logs, pc, step,
                 employee_id, workflow_id, exc, workflow_results,
                 accumulated_data, ret, process_calls, result, step_result,
                 audit_lost, bulk, direct, listen, auxvars>>

\* send_message without a target: the timestamp is set and
\* _broadcast_message starts with results = {} and an iterator over the
\* registry
BroadcastStart ==
  /\ send.pc = "send_message"
  /\ send.message.target_agent = NoTarget
  /\ send' = [send EXCEPT !.pc = "broadcast_loop",
                          !.message.timestamp = sent,
                          !.results = <<>>,
                          !.visited = {},
                          !.size = Cardinality(DOMAIN agent_registry)]
  /\ UNCHANGED <<agent_registry, queues, http_calls, sent>>
  /\ UNCHANGED <<employee_data, employees, workflows, agent_logs, pc, step,
                 employee_id, workflow_id, exc, workflow_results,
                 accumulated_data, ret, process_calls, result, step_result,
                 audit_lost, bulk, direct, listen, auxvars>>

\* one step of "for agent_name in self.agent_registry".  The iterator
\* raises when the dict has another size than at its creation; when it is
\* exhausted the results are returned; otherwise the next name is taken
\* (any name not yet visited: the insertion order is not kept in the
\* model), skipped if it is the source, and else made the target and
\* posted to or queued as _send_direct_message does.
BroadcastNext ==
  /\ send.pc = "broadcast_loop"
  /\ IF Cardinality(DOMAIN agent_registry) # send.size
       THEN /\ send' = [send EXCEPT
                 !.pc = "raised",
                 !.exc = [kind |-> "RuntimeError",
                          msg |-> "dictionary changed size during iteration"]]
            /\ UNCHANGED <<queues, http_calls>>
       ELSE IF DOMAIN agent_registry \subseteq send.visited
         THEN /\ send' = [send EXCEPT
                   !.pc = "returned",
                   !.ret = [broadcast_results |-> send.results]]
              /\ UNCHANGED <<queues, http_calls>>
         ELSE \E agent_name \in DOMAIN agent_registry \ send.visited :
                LET message == [send.message EXCEPT
                                  !.target_agent = agent_name]
                    route == DirectRoute(agent_registry, agent_name)
                IN  IF ~IsRecipient(agent_name, send.message)
                      THEN /\ send' = [send EXCEPT
                                !.visited = @ \cup {agent_name}]
                           /\ UNCHANGED <<queues, http_calls>>
                      ELSE CASE route = "http" ->
                             /\ http_calls' =
                                  Append(http_calls,
                                    [endpoint |->
                                       agent_registry[agent_name].http_endpoint,
                                     json |-> ToDict(message),
                                     response |-> ""])
                             /\ send' = [send EXCEPT
                                  !.pc = "broadcast_http_wait",
                                  !.message = message,
                                  !.visited = @ \cup {agent_name}]
                             /\ UNCHANGED queues
                        [] route = "queue" ->
                             /\ queues' = [queues EXCEPT ![agent_name] =
                                             <<ToDict(message)>> \o @]
                             /\ send' = [send EXCEPT
                                  !.message = message,
                                  !.visited = @ \cup {agent_name},
                                  !.results =
                                    Put(@, agent_name,
                                        [status |-> "queued",
                                         queue |-> QueueName(agent_name)])]
                             /\ UNCHANGED http_calls
  /\ UNCHANGED <<agent_registry, sent>>
  /\ UNCHANGED <<employee_data, employees, workflows, agent_logs, pc, step,
                 employee_id, workflow_id, exc, workflow_results,
                 accumulated_data, ret, process_calls, result, step_result,
                 audit_lost, bulk, direct, listen, auxvars>>

\* the post of a broadcast is answered: results[agent_name] = result
BroadcastHttpResponse ==
  /\ send.pc = "broadcast_http_wait"
  /\ \E r \in Responses :
       /\ http_calls' = [http_calls EXCEPT ![Len(http_calls)].response = r]
       /\ send' = [send EXCEPT
            !.pc = "broadcast_loop",
            !.results = Put(@, send.message.target_agent,
                            [jsonrpc |-> "2.0", id |-> send.message.id,
                             result |-> r])]
  /\ UNCHANGED <<agent_registry, queues, sent>>
  /\ UNCHANGED <<employee_data, employees, workflows, agent_logs, pc, step,
                 employee_id, workflow_id, exc, workflow_results,
                 accumulated_data, ret, process_calls, result, step_result,
                 audit_lost, bulk, direct, listen, auxvars>>

\* DeliveryFailed without the try: the error leaves _broadcast_message
DeliveryFailed_Propagate(s, e) ==
  [s EXCEPT !.pc = "raised", !.exc = [kind |-> "Exception", msg |-> e]]

\* "except Exception as e: results[agent_name] = {"error": str(e)}", after
\* which the for loop takes its next name
DeliveryFailed(s, e) ==
  [s EXCEPT !.pc = "broadcast_loop",
            !.results = Put(@, s.message.target_agent, [error |-> e])]

\* lpush of a broadcast fails (Redis unavailable):
\* results[agent_name] = {"error": str(e)}, and the loop goes on
BroadcastQueueError ==
  /\ send.pc = "broadcast_loop"
  /\ Cardinality(DOMAIN agent_registry) = send.size
  /\ \E agent_name \in DOMAIN agent_registry \ send.visited :
       /\ IsRecipient(agent_name, send.message)
       /\ DirectRoute(agent_registry, agent_name) = "queue"
       /\ send' = DeliveryFailed(
                    [send EXCEPT !.message.target_agent = agent_name,
                                 !.visited = @ \cup {agent_name}],
                    "Error connecting to redis")
  /\ UNCHANGED <<agent_registry, queues, http_calls, sent>>
  /\ UNCHANGED <<employee_data, employees, workflows, agent_logs, pc, step,
                 employee_id, workflow_id, exc, workflow_results,
                 accumulated_data, ret, process_calls, result, step_result,
                 audit_lost, bulk, direct, listen, auxvars>>

\* the post of a broadcast fails: results[agent_name] = {"error": str(e)}
BroadcastHttpError ==
  /\ send.pc = "broadcast_http_wait"
  /\ http_calls' = [http_calls EXCEPT ![Len(http_calls)].response = "error"]
  /\ send' = DeliveryFailed(send, "request failed")
  /\ UNCHANGED <<agent_registry, queues, sent>>
  /\ UNCHANGED <<employee_data, employees, workflows, agent_logs, pc, step,
                 employee_id, workflow_id, exc, workflow_results,
                 accumulated_data, ret, process_calls, result, step_result,
                 audit_lost, bulk, direct, listen, auxvars>>

\* no workflow is started while the bus is studied
InitBus ==
  /\ Init
  /\ \A t \in Tasks : employee_data[t] = [fields |-> "missing", email |-> ""]

NextBus ==
  \/ \E a \in AgentNames : \E info \in AgentInfos(a) : RegisterAgent(a, info)
  \/ \E target \in AgentNames : CallAgent(target)
  \/ SendDirectMessage
  \/ HttpResponse
  \/ HttpError

SpecBus == InitBus /\ [][NextBus]_vars

\* ------------------------------------- receive_messages and the listener
\* the agent whose listener is followed
Listener == "scheduler"

\* the sets of a2a_<method> attributes the listening agent may have, for
\* the method its callers use
HandlerSets == SUBSET {"account_created_notification"}

\* A2AMessage.from_dict on json.loads of a queued payload
FromDict(data) ==
  [id |-> data.id,
   method |-> data.method,
   params |-> data.params,
   message_type |-> data.metadata.message_type,
   source_agent |-> data.metadata.source_agent,
   target_agent |-> data.metadata.target_agent,
   timestamp |-> data.metadata.timestamp]

\* AfterReceiveError that lets the error end the generator
AfterReceiveError_Stop(l) == [l EXCEPT !.pc = "stopped"]

\* "except Exception as e" of receive_messages: the error is logged and
\* the loop sleeps a second before its next round
AfterReceiveError(l) ==
  [l EXCEPT !.pc = "sleep_error", !.log = "Error receiving message"]

\* AfterHandling that puts an envelope back on the agent's queue when no
\* handler has dealt with it
AfterHandling_Requeue(qs, l, outcome) ==
  IF outcome = "handled"
    THEN qs
    ELSE [qs EXCEPT ![Listener] = <<ToDict(l.message)>> \o @]

\* the queues after _handle_a2a_message and the except of
\* start_message_listener: neither touches them
AfterHandling(qs, l, outcome) == qs

\* start_message_listener of an agent with the a2a_ handlers h: the
\* generator of receive_messages is created and runs to its first brpop
StartMessageListener(h) ==
  /\ listen.pc = "off"
  /\ listen' = [listen EXCEPT !.pc = "poll", !.handlers = h]
  /\ UNCHANGED <<agent_registry, queues, http_calls, send, sent>>
  /\ UNCHANGED <<employee_data, employees, workflows, agent_logs, pc, step,
                 employee_id, workflow_id, exc, workflow_results,
                 accumulated_data, ret, process_calls, result, step_result,
                 audit_lost, bulk, direct, auxvars>>

\* Poll that pops at the end of the list where lpush has put the newest
\* payload
Poll_NewestFirst ==
  /\ listen.pc = "poll"
  /\ \/ /\ listen' = AfterReceiveError(listen)
        /\ UNCHANGED queues
     \/ /\ queues[Listener] = <<>>
        /\ listen' = [listen EXCEPT !.pc = "sleep"]
        /\ UNCHANGED queues
     \/ /\ queues[Listener] # <<>>
        /\ LET message == FromDict(Head(queues[Listener]))
           IN  /\ queues' = [queues EXCEPT ![Listener] = Tail(@)]
               /\ listen' = [listen EXCEPT
                    !.pc = "yielded",
                    !.message = message,
                    !.log = "Message received",
                    !.delivered = Append(@, message.id)]
  /\ UNCHANGED <<agent_registry, http_calls, send, sent>>
  /\ UNCHANGED <<employee_data, employees, workflows, agent_logs, pc, step,
                 employee_id, workflow_id, exc, workflow_results,
                 accumulated_data, ret, process_calls, result, step_result,
                 audit_lost, bulk, direct, auxvars>>

\* one round of the while loop up to its sleep or its yield:
\* brpop([queue_name], timeout=1) raises, or times out with None, or
\* returns the payload at the tail of the list, which is decoded and
\* yielded to start_message_listener
Poll ==
  /\ listen.pc = "poll"
  /\ \/ /\ listen' = AfterReceiveError(listen)
        /\ UNCHANGED queues
     \/ /\ queues[Listener] = <<>>
        /\ listen' = [listen EXCEPT !.pc = "sleep"]
        /\ UNCHANGED queues
     \/ /\ queues[Listener] # <<>>
        /\ LET q == queues[Listener]
               message == FromDict(q[Len(q)])
           IN  /\ queues' = [queues EXCEPT
                    ![Listener] = SubSeq(q, 1, Len(q) - 1)]
               /\ listen' = [listen EXCEPT
                    !.pc = "yielded",
                    !.message = message,
                    !.log = "Message received",
                    !.delivered = Append(@, message.id)]
  /\ UNCHANGED <<agent_registry, http_calls, send, sent>>
  /\ UNCHANGED <<employee_data, employees, workflows, agent_logs, pc, step,
                 employee_id, workflow_id, exc, workflow_results,
                 accumulated_data, ret, process_calls, result, step_result,
                 audit_lost, bulk, direct, auxvars>>

\* the body of the async for: _handle_a2a_message calls a2a_<method> if
\* the agent has it, and the handler returns or raises into the except
\* of start_message_listener; without it a warning is logged.  Then the
\* generator is resumed after its yield.
HandleMessage ==
  /\ listen.pc = "yielded"
  /\ \E outcome \in IF listen.message.method \in listen.handlers
                      THEN {"handled", "Error handling A2A message"}
                      ELSE {"No handler for A2A method"} :
       /\ listen' = [listen EXCEPT !.pc = "sleep", !.log = outcome]
       /\ queues' = AfterHandling(queues, listen, outcome)
  /\ UNCHANGED <<agent_registry, http_calls, send, sent>>
  /\ UNCHANGED <<employee_data, employees, workflows, agent_logs, pc, step,
                 employee_id, workflow_id, exc, workflow_results,
                 accumulated_data, ret, process_calls, result, step_result,
                 audit_lost, bulk, direct, auxvars>>

\* asyncio.sleep(0.1) after a round, asyncio.sleep(1) after an error; the
\* while loop then starts its next round
Sleep ==
  /\ listen.pc \in {"sleep", "sleep_error"}
  /\ listen' = [listen EXCEPT !.pc = "poll"]
  /\ UNCHANGED <<agent_registry, queues, http_calls, send, sent>>
  /\ UNCHANGED <<employee_data, employees, workflows, agent_logs, pc, step,
                 employee_id, workflow_id, exc, workflow_results,
                 accumulated_data, ret, process_calls, result, step_result,
                 audit_lost, bulk, direct, auxvars>>

\* the steps of the listener task once it has been started
ListenerStep == Poll \/ HandleMessage \/ Sleep

\* the listening agent, registered with or without an endpoint, its
\* callers and its listener
NextListen ==
  \/ \E info \in AgentInfos(Listener) : RegisterAgent(Listener, info)
  \/ CallAgent(Listener)
  \/ SendDirectMessage
  \/ HttpResponse
  \/ HttpError
  \/ \E h \in HandlerSets : StartMessageListener(h)
  \/ Poll
  \/ HandleMessage
  \/ Sleep

SpecListen == InitBus /\ [][NextListen]_vars

\* the event loop keeps running the listener task: brpop comes back
\* within its timeout, the sleeps end, and the body of the async for
\* completes
SpecListenFair == SpecListen /\ WF_vars(ListenerStep)

\* the listener task keeps running and the Redis server does not fail
\* for ever: a payload that stays in the list is returned by some brpop
SpecListenLive ==
  /\ SpecListen
  /\ WF_vars(ListenerStep)
  /\ SF_vars(Poll /\ listen'.pc = "yielded")

\* a second generator of receive_messages for the same agent name, run by
\* another task on the same list of the Redis server
StartRival ==
  /\ rival.pc = "off"
  /\ rival' = [rival EXCEPT !.pc = "poll"]
  /\ UNCHANGED queues
  /\ UNCHANGED <<agent_registry, http_calls, send, sent>>
  /\ UNCHANGED <<employee_data, employees, workflows, agent_logs, pc, step,
                 employee_id, workflow_id, exc, workflow_results,
                 accumulated_data, ret, process_calls, result, step_result,
                 audit_lost, bulk, direct, listen, query, ser, notify>>

\* RivalPoll whose read leaves the payload in the list
RivalPoll_Peek ==
  /\ rival.pc = "poll"
  /\ \/ /\ rival' = [rival EXCEPT !.pc = "sleep"]
        /\ UNCHANGED queues
     \/ /\ queues[Listener] # <<>>
        /\ LET q == queues[Listener]
               message == FromDict(q[Len(q)])
           IN  /\ UNCHANGED queues
               /\ \/ rival' = [rival EXCEPT !.pc = "sleep"]
                  \/ rival' = [rival EXCEPT
                       !.pc = "yielded",
                       !.delivered = Append(@, message.id)]
  /\ UNCHANGED <<agent_registry, http_calls, send, sent>>
  /\ UNCHANGED <<employee_data, employees, workflows, agent_logs, pc, step,
                 employee_id, workflow_id, exc, workflow_results,
                 accumulated_data, ret, process_calls, result, step_result,
                 audit_lost, bulk, direct, listen, query, ser, notify>>

\* one round of the while loop of the second generator: brpop raises or
\* times out and the loop sleeps; or brpop takes the payload at the tail
\* out of the list in one command of the server, and either json.loads
\* or from_dict raises into the except, which logs and sleeps, or the
\* envelope is yielded
RivalPoll ==
  /\ rival.pc = "poll"
  /\ \/ /\ rival' = [rival EXCEPT !.pc = "sleep"]
        /\ UNCHANGED queues
     \/ /\ queues[Listener] # <<>>
        /\ LET q == queues[Listener]
               message == FromDict(q[Len(q)])
           IN  /\ queues' = [queues EXCEPT
                    ![Listener] = SubSeq(q, 1, Len(q) - 1)]
               /\ \/ rival' = [rival EXCEPT !.pc = "sleep"]
                  \/ rival' = [rival EXCEPT
                       !.pc = "yielded",
                       !.delivered = Append(@, message.id)]
  /\ UNCHANGED <<agent_registry, http_calls, send, sent>>
  /\ UNCHANGED <<employee_data, employees, workflows, agent_logs, pc, step,
                 employee_id, workflow_id, exc, workflow_results,
                 accumulated_data, ret, process_calls, result, step_result,
                 audit_lost, bulk, direct, listen, query, ser, notify>>

\* the consumer of the second generator ends its body, returning or
\* raising into its except, and the generator is resumed after its yield;
\* or a sleep of the loop ends
RivalResume ==
  /\ rival.pc \in {"yielded", "sleep"}
  /\ rival' = [rival EXCEPT !.pc = "poll"]
  /\ UNCHANGED queues
  /\ UNCHANGED <<agent_registry, http_calls, send, sent>>
  /\ UNCHANGED <<employee_data, employees, workflows, agent_logs, pc, step,
                 employee_id, workflow_id, exc, workflow_results,
                 accumulated_data, ret, process_calls, result, step_result,
                 audit_lost, bulk, direct, listen, query, ser, notify>>

\* the listening agent with two receive loops on its queue
NextRival ==
  \/ NextListen
  \/ StartRival
  \/ RivalPoll
  \/ RivalResume

SpecRival == InitBus /\ [][NextRival]_vars

\* lpush of a direct send fails (Redis unavailable): the error leaves
\* _send_queue_message, _send_direct_message and send_message
SendQueueError ==
  /\ send.pc = "send_message"
  /\ send.message.target_agent # NoTarget
  /\ DirectRoute(agent_registry, send.message.target_agent) = "queue"
  /\ send' = DirectFailed([send EXCEPT !.message.timestamp = sent],
                           "ConnectionError", "Error connecting to redis")
  /\ UNCHANGED <<agent_registry, queues, http_calls, sent>>
  /\ UNCHANGED <<employee_data, employees, workflows, agent_logs, pc, step,
                 employee_id, workflow_id, exc, workflow_results,
                 accumulated_data, ret, process_calls, result, step_result,
                 audit_lost, bulk, direct, listen, auxvars>>

NextBusFault ==
  \/ NextBus
  \/ SendQueueError

SpecBusFault == InitBus /\ [][NextBusFault]_vars

\* the broadcasts of one agent over a registry that is written between
\* broadcasts and not while one is suspended at a post
NextBroadcast ==
  \/ \E a \in AgentNames : \E info \in AgentInfos(a) :
       /\ send.pc # "broadcast_http_wait"
       /\ RegisterAgent(a, info)
  \/ BroadcastEvent
  \/ BroadcastStart
  \/ BroadcastNext
  \/ BroadcastHttpResponse
  \/ BroadcastHttpError
  \/ BroadcastQueueError

SpecBroadcast == InitBus /\ [][NextBroadcast]_vars

\* the same with register_agent also running while the broadcasting task
\* is suspended at "await client.post(...)"
NextBroadcastRace ==
  \/ NextBroadcast
  \/ \E a \in AgentNames : \E info \in AgentInfos(a) :
       /\ send.pc = "broadcast_http_wait"
       /\ RegisterAgent(a, info)

SpecBroadcastRace == InitBus /\ [][NextBroadcastRace]_vars

\* --------------------------------------------------- _serialize_for_json
\* Values are leaves [type, v], lists [type |-> "list", elems] and dicts
\* [type |-> "dict", items] with string keys.
Leaf(type, v) == [type |-> type, v |-> v]

List(elems) == [type |-> "list", elems |-> elems]

Dict(items) == [type |-> "dict", items |-> items]

\* the leaves: identifiers, timestamps, the text of an identifier, other
\* scalars and None
Leaves ==
  {Leaf("UUID", "6f1c"), Leaf("datetime", "2030-01-07T09:00:00"),
   Leaf("str", "6f1c"), Leaf("str", "Ada"), Leaf("int", "7"), None}

\* the keys of the dicts
Keys == {"employee_id", "start"}

\* the longest list
MaxElems == 2

\* the lists and dicts whose members are in S
ListsOver(S) == {List(e) : e \in UNION {[1..n -> S] : n \in 0..MaxElems}}

DictsOver(S) == {Dict(d) : d \in UNION {[K -> S] : K \in SUBSET Keys}}

\* leaves and the containers of leaves
Flat == Leaves \cup ListsOver(Leaves) \cup DictsOver(Leaves)

\* the data of test_uuid_serialization
TestData ==
  Dict([k \in {"employee_id", "nested_dict", "uuid_list"} |->
          CASE k = "employee_id" -> Leaf("UUID", "6f1c")
            [] k = "nested_dict" ->
                 Dict([j \in {"another_uuid"} |-> Leaf("UUID", "6f1c")])
            [] k = "uuid_list" ->
                 List(<<Leaf("UUID", "6f1c"), Leaf("UUID", "6f1c")>>)])

\* the values _serialize_for_json is called with: nested up to three deep
SerializeInputs ==
  Flat
    \cup {List(<<x>>) : x \in Flat}
    \cup {Dict([k \in {"nested"} |-> x]) : x \in Flat}
    \cup {List(<<Dict([k \in {"nested"} |-> x])>>) : x \in ListsOver(Leaves)}
    \cup {TestData}

\* SerializeForJson that converts the members of a dict but returns the
\* members of a list as they are
RECURSIVE SerializeForJson_ShallowLists(_)
SerializeForJson_ShallowLists(data) ==
  CASE data.type = "UUID" -> Leaf("str", data.v)
    [] data.type = "dict" ->
         Dict([k \in DOMAIN data.items |->
                 SerializeForJson_ShallowLists(data.items[k])])
    [] data.type = "list" -> data
    [] data.type \in {"datetime", "date"} -> Leaf("str", data.v)
    [] OTHER -> data

\* _serialize_for_json: str(data) of a UUID, the dict and the list of the
\* serialized members, isoformat() of what has it, else data itself.
\* The content v of a UUID or datetime leaf is its text.
RECURSIVE SerializeForJson(_)
SerializeForJson(data) ==
  CASE data.type = "UUID" -> Leaf("str", data.v)
    [] data.type = "dict" ->
         Dict([k \in DOMAIN data.items |-> SerializeForJson(data.items[k])])
    [] data.type = "list" ->
         List([i \in 1..Len(data.elems) |-> SerializeForJson(data.elems[i])])
    [] data.type \in {"datetime", "date"} -> Leaf("str", data.v)
    [] OTHER -> data

\* a call of _serialize_for_json on some data
Serialize(data) ==
  /\ ser.pc = "idle"
  /\ ser' = [pc |-> "once", data |-> data, out |-> SerializeForJson(data)]
  /\ UNCHANGED <<employee_data, employees, workflows, agent_logs, pc, step,
                 employee_id, workflow_id, exc, workflow_results,
                 accumulated_data, ret, process_calls, result, step_result,
                 audit_lost, bulk, direct, busvars, rival, query, notify>>

\* a call of _serialize_for_json on what the first call returned
SerializeAgain ==
  /\ ser.pc = "once"
  /\ ser' = [pc |-> "twice", data |-> ser.out,
             out |-> SerializeForJson(ser.out)]
  /\ UNCHANGED <<employee_data, employees, workflows, agent_logs, pc, step,
                 employee_id, workflow_id, exc, workflow_results,
                 accumulated_data, ret, process_calls, result, step_result,
                 audit_lost, bulk, direct, busvars, rival, query, notify>>

NextSerialize ==
  \/ \E data \in SerializeInputs : Serialize(data)
  \/ SerializeAgain

SpecSerialize == InitBus /\ [][NextSerialize]_vars

\* ================================================================ claims
\* The statuses and steps as the specification orders them.
StatusSequence ==
  << "started",
     "validation_in_progress", "validation_completed",
     "account_setup_in_progress", "account_setup_completed",
     "scheduling_in_progress", "scheduling_completed",
     "notification_in_progress", "notification_completed",
     "completed" >>

StepSequence == << "validation", "account_setup", "scheduling", "notification" >>

AgentSequence == << "validator", "account_setup", "scheduler", "notifier" >>

\* the invocation has returned or raised to its caller
RunEnded(t) == pc[t] \in {"returned", "raised"}

\* process was invoked for every step and none raised
AllStepsSucceeded(t) ==
  /\ Len(process_calls[t]) = Len(StepSequence)
  /\ exc[t] = NoExc

\* the process of some step raised; it is the last one invoked
StepRaised(t) == exc[t] \in StepErrors

FailedStep(t) == Len(process_calls[t])

\* the workflow created by invocation t is completed / failed at its end
EndedCompleted(t) ==
  /\ pc[t] = "returned"
  /\ workflow_id[t] \in DOMAIN workflows
  /\ workflows[workflow_id[t]].status = "completed"

EndedFailedAt(t, k) ==
  /\ pc[t] = "raised"
  /\ StepRaised(t)
  /\ FailedStep(t) = k
  /\ workflow_id[t] \in DOMAIN workflows
  /\ workflows[workflow_id[t]].status = "failed"

\* ------------------------------------------------------------------- C1
C1_Allowed(old, new) ==
  \/ \E k \in 1..(Len(StatusSequence) - 1) :
       old = StatusSequence[k] /\ new = StatusSequence[k + 1]
  \/ \E i \in 1..Len(StepSequence) :
       old = StatusSequence[2 * i] /\ new = "failed"

C5_SequentialOnce ==
  [][\A t \in Tasks :
       process_calls'[t] # process_calls[t] =>
         /\ Len(process_calls[t]) < Len(StepSequence)
         /\ process_calls'[t] =
              Append(process_calls[t],
                     StepSequence[Len(process_calls[t]) + 1])
         /\ exc[t] = NoExc
         /\ workflow_results[t] =
              {StepSequence[i] : i \in 1..Len(process_calls[t])}
         /\ Len(LogsOf(workflow_id[t])) = Len(process_calls[t])
         /\ \A i \in 1..Len(process_calls[t]) :
              LogsOf(workflow_id[t])[i].status = "success"]_vars

C5_Witness ==
  \E t, u \in Tasks :
    /\ process_calls[t] = StepSequence
    /\ RunEnded(u) /\ StepRaised(u)
    /\ process_calls[u] = <<"validation", "account_setup">>

\* ------------------------------------------------------------------- C6
\* execute was entered for this many steps of invocation t
ExecutesEntered(t) ==
  IF pc[t] \in {"start", "create_workflow"} THEN 0
  ELSE IF pc[t] = "step_begin" THEN step[t] - 1
  ELSE step[t]

\* an execute of invocation t is entered and has not returned or raised
ExecuteRunning(t) == pc[t] \in {"process", "log_success", "log_failed"}

ExecutesFinished(t) ==
  ExecutesEntered(t) - (IF ExecuteRunning(t) THEN 1 ELSE 0)

C7_Terminal ==
  [][\A w \in DOMAIN workflows :
       workflows[w].status \in {"completed", "failed"} =>
         /\ w \in DOMAIN workflows'
         /\ workflows'[w].status = workflows[w].status]_vars

C7_Witness ==
  \E t, u \in Tasks :
    /\ EndedCompleted(t)
    /\ pc[u] = "start_except"
    /\ workflow_id[u] \in DOMAIN workflows
    /\ workflows[workflow_id[u]].status = "failed"

C9_FailedStepNamed ==
  \A t \in Tasks :
    (RunEnded(t) /\ StepRaised(t)) =>
      workflows[workflow_id[t]].current_step = StepSequence[FailedStep(t)]

C11_ExecuteOutcome ==
  [][\A t \in Tasks :
       /\ (pc[t] = "log_success" /\ pc'[t] # "log_success") =>
            /\ pc'[t] = "step_complete"
            /\ step_result'[t] = result[t]
            /\ result[t] = ProcessResult(step[t], employee_data[t])
            /\ exc'[t] = NoExc
       /\ (pc[t] = "log_failed" /\ pc'[t] # "log_failed") =>
            /\ pc'[t] = "step_except"
            /\ exc[t] \in StepErrors
            /\ exc'[t] = exc[t]]_vars

C11_Witness ==
  \E t \in Tasks :
    /\ pc[t] = "step_except"
    /\ step[t] = 2
    /\ audit_lost[t] = 2
    /\ agent_logs[t] = <<>>
    /\ step_result[t] = [of |-> "validator", value |-> "is_valid"]

\* ------------------------------------------------------------------ C12
\* C12 as stated: each finished execute has left exactly one record,
\* also when audit writes fail.
C12_ExactlyOneRecord ==
  \A t \in Tasks : Len(agent_logs[t]) = ExecutesFinished(t)

\* C12: each finished execute has left one record if its audit write
\* succeeded and none if it failed; none has left two.
C12_OneRecordUnlessLost ==
  \A t \in Tasks :
    /\ audit_lost[t] <= ExecutesFinished(t)
    /\ Len(agent_logs[t]) = ExecutesFinished(t) - audit_lost[t]

C12_Witness ==
  \E t \in Tasks :
    /\ RunEnded(t) /\ AllStepsSucceeded(t)
    /\ audit_lost[t] = 1
    /\ Len(agent_logs[t]) = 3

EndedLike(t) ==
  Cardinality({u \in Tasks : u <= t /\ pc[u] = pc[t]})

\* C14: process_bulk_employees returns, whatever its items did, with
\* total_processed = N and successful + failed = N; the k-th item that
\* returned is the k-th entry of successful_workflows, the k-th item that
\* raised is the k-th entry of failed_workflows with its input and the
\* text of its error, and there are no other entries.
C14_BulkAccountsForAll ==
  bulk.kind # "pending" =>
    /\ bulk.kind = "return"
    /\ bulk.total_processed = NumTasks
    /\ bulk.successful + bulk.failed = NumTasks
    /\ Len(bulk.successful_workflows) = bulk.successful
    /\ Len(bulk.failed_workflows) = bulk.failed
    /\ bulk.successful = Cardinality({t \in Tasks : pc[t] = "returned"})
    /\ bulk.failed = Cardinality({t \in Tasks : pc[t] = "raised"})
    /\ \A t \in Tasks :
         /\ pc[t] = "returned" =>
              /\ bulk.successful_workflows[EndedLike(t)] = ret[t]
              /\ ret[t].workflow_id = workflow_id[t]
         /\ pc[t] = "raised" =>
              bulk.failed_workflows[EndedLike(t)] =
                [employee_data |-> employee_data[t],
                 error |-> ret[t].exc.msg]

C14_Witness ==
  /\ bulk.kind = "return"
  /\ bulk.successful >= 1
  /\ bulk.failed >= 1
  /\ \E t \in Tasks : pc[t] = "raised" /\ ret[t].exc = IntegrityError

\* ------------------------------------------------------------------ C15
\* what the store and the engine hold of item t is the same after the step
WorkflowUntouched(t) ==
  /\ pc'[t] = pc[t]
  /\ step'[t] = step[t]
  /\ process_calls'[t] = process_calls[t]
  /\ agent_logs'[t] = agent_logs[t]
  /\ (t \in DOMAIN workflows') = (t \in DOMAIN workflows)
  /\ t \in DOMAIN workflows => workflows'[t] = workflows[t]

\* C15: under every interleaving a step of one item, a failing one
\* included, leaves the status, the step order and the records of every
\* other item as they were; so an item whose steps all succeed ends
\* completed with its own four success records, whatever the others did,
\* and is one of successful_workflows.
C15_ItemsIndependent ==
  /\ [][\A u \in Tasks : pc'[u] # pc[u] =>
          \A t \in Tasks \ {u} : WorkflowUntouched(t)]_vars
  /\ [](\A t \in Tasks :
          (RunEnded(t) /\ AllStepsSucceeded(t)) =>
            /\ pc[t] = "returned"
            /\ workflows[workflow_id[t]].status = "completed"
            /\ process_calls[t] = StepSequence
            /\ [i \in 1..Len(agent_logs[workflow_id[t]]) |->
                  agent_logs[workflow_id[t]][i].status]
                 = [i \in 1..Len(StepSequence) |-> "success"]
            /\ bulk.kind # "pending" =>
                 \E k \in 1..Len(bulk.successful_workflows) :
                   bulk.successful_workflows[k] = ret[t])

C15_Witness ==
  \E t, u \in Tasks :
    /\ RunEnded(u) /\ StepRaised(u) /\ workflows[u].status = "failed"
    /\ RunEnded(t) /\ AllStepsSucceeded(t)
    /\ workflows[t].status = "completed"
    /\ bulk.kind = "return"
    /\ bulk.failed >= 1

\* ------------------------------------------------------------------ C16
\* the items that carry e-mail m and have been through
\* _create_employee_record
Colliding(m) ==
  {t \in Tasks : /\ employee_data[t].fields # "missing"
                 /\ employee_data[t].email = m
                 /\ pc[t] # "start"}

\* C16: of the items started with one e-mail address exactly one creates
\* the employee row, so no two rows share an address; each of the others
\* fails on the uniqueness constraint without a workflow, and
\* process_bulk_employees lists it in failed_workflows with its input and
\* that error.  The item that created the row runs its steps as it would
\* alone.
C16_CollisionIsItemFailure ==
  /\ \A e1, e2 \in employees : e1.email = e2.email => e1 = e2
  /\ \A m \in Emails :
       Colliding(m) # {} =>
         /\ Cardinality({t \in Colliding(m) : employee_id[t] # NULL}) = 1
         /\ \A t \in Colliding(m) :
              /\ employee_id[t] = NULL =>
                   /\ exc[t].kind = "IntegrityError"
                   /\ workflow_id[t] = NULL
                   /\ RunEnded(t) => ret[t].kind = "raise"
                   /\ bulk.kind # "pending" =>
                        bulk.failed_workflows[EndedLike(t)] =
                          [employee_data |-> employee_data[t],
                           error |-> "duplicate key value"]
              /\ employee_id[t] # NULL =>
                   /\ exc[t].kind # "IntegrityError"
                   /\ \E e \in employees : e.id = employee_id[t] /\ e.email = m
                   /\ (RunEnded(t) /\ AllStepsSucceeded(t)) =>
                        /\ ret[t].kind = "return"
                        /\ ret[t].status = "completed"

C16_Witness ==
  \E t, u \in Tasks :
    /\ t # u
    /\ employee_data[t].email = employee_data[u].email
    /\ pc[t] = "raised" /\ ret[t].exc = IntegrityError
    /\ pc[u] = "returned" /\ ret[u].status = "completed"
    /\ bulk.kind = "return"
    /\ bulk.failed >= 1 /\ bulk.successful >= 1

\* ------------------------------------------------------------------ C17
\* C17: when a run on input the validator rejects has ended, the record
\* of the validation step has outcome failed, the workflow is failed and
\* no step after validation was invoked.
C17_RejectedInputFails ==
  \A t \in Tasks :
    (RunEnded(t) /\ employee_data[t].fields = "invalid"
       /\ workflow_id[t] # NULL) =>
      /\ agent_logs[workflow_id[t]][1].agent_type = "validator"
      /\ agent_logs[workflow_id[t]][1].status = "failed"
      /\ workflows[workflow_id[t]].status = "failed"
      /\ process_calls[t] = <<"validation">>

\* ------------------------------------------------------------------ C18
\* the invocations made with the very input of t
SameInput(t) == {u \in Tasks : employee_data[u] = employee_data[t]}

\* C18 as stated: each of two invocations with identical input creates an
\* employee entity and a workflow entity of its own.
C18_SecondCreatesEntities ==
  \A t, u \in Tasks :
    (t # u /\ u \in SameInput(t) /\ employee_data[t].fields # "missing"
       /\ RunEnded(t) /\ RunEnded(u)) =>
      /\ employee_id[t] # NULL /\ employee_id[u] # NULL
      /\ employee_id[t] # employee_id[u]
      /\ workflow_id[t] # NULL /\ workflow_id[u] # NULL
      /\ workflow_id[t] # workflow_id[u]

\* C18: of the invocations made with one complete input at most one
\* creates an employee and a workflow, and the store holds one employee
\* with that address; every other one is refused by the unique e-mail
\* column, raises that error to its caller and creates neither entity.
C18_SecondIsRefused ==
  \A t \in Tasks :
    (employee_data[t].fields # "missing"
       /\ \A u \in SameInput(t) : RunEnded(u)) =>
      /\ Cardinality({u \in SameInput(t) : employee_id[u] # NULL}) <= 1
      /\ Cardinality({u \in SameInput(t) : workflow_id[u] # NULL}) <= 1
      /\ Cardinality({e \in employees :
                        e.email = employee_data[t].email}) = 1
      /\ \A u \in SameInput(t) :
           \/ /\ employee_id[u] = u
              /\ workflow_id[u] = u
              /\ u \in DOMAIN workflows
           \/ /\ employee_id[u] = NULL
              /\ workflow_id[u] = NULL
              /\ u \notin DOMAIN workflows
              /\ ret[u].kind = "raise"
              /\ ret[u].exc.kind = "IntegrityError"

C18_Witness ==
  \E t, u \in Tasks :
    /\ t # u
    /\ employee_data[t] = employee_data[u]
    /\ employee_data[t].fields = "all"
    /\ pc[t] = "returned" /\ ret[t].status = "completed"
    /\ pc[u] = "raised" /\ workflow_id[u] = NULL
    /\ Cardinality(DOMAIN workflows) = 1

\* ------------------------------------------------------------------ C19
\* the posts and the queued envelopes that carry message id n
PostsOf(n) == {k \in 1..Len(http_calls) : http_calls[k].json.id = n}

QueuedOf(n) ==
  {<<a, k>> \in AgentNames \X (1..MaxSends) :
     k <= Len(queues[a]) /\ queues[a][k].id = n}

\* C19: a direct send to a name the registry does not hold ends by
\* raising the addressing error that names the target, in a step that
\* leaves the registry, every queue and the posts as they were; no post
\* and no queued envelope carries that message.
C19_UnregisteredTargetRaises ==
  /\ [][(/\ send.pc = "send_message"
         /\ send'.pc # "send_message"
         /\ send.message.target_agent \notin DOMAIN agent_registry) =>
          /\ send'.pc = "raised"
          /\ send'.exc.kind = "ValueError"
          /\ send'.exc.msg \in
               {"Target agent account_setup not registered",
                "Target agent scheduler not registered",
                "Target agent notifier not registered"}
          /\ agent_registry' = agent_registry
          /\ queues' = queues
          /\ http_calls' = http_calls]_vars
  /\ []((send.pc = "raised" /\ send.exc.kind = "ValueError") =>
          /\ PostsOf(send.message.id) = {}
          /\ QueuedOf(send.message.id) = {})

C19_Witness ==
  /\ send.pc = "raised"
  /\ send.exc = [kind |-> "ValueError",
                 msg |-> "Target agent scheduler not registered"]
  /\ send.message.id = 2
  /\ Len(queues["notifier"]) = 1
  /\ "scheduler" \notin DOMAIN agent_registry
  /\ http_calls = <<>>

\* ------------------------------------------------------------------ C20
\* C20: a direct send to a registered name goes the way its registration
\* says.  With an endpoint: one post to that endpoint is made, nothing is
\* queued, and what send_message returns is the answer given to that
\* post.  Without: the envelope is put on the queue of the target and on
\* no other, no post is made, and the queued acknowledgment naming that
\* queue is returned.  No message is ever posted or queued twice.
C20_TransportByRegistration ==
  /\ [][(/\ send.pc = "send_message"
         /\ send'.pc # "send_message"
         /\ send.message.target_agent \in DOMAIN agent_registry) =>
          LET target == send.message.target_agent
              envelope == [jsonrpc |-> "2.0",
                           id |-> send.message.id,
                           method |-> send.message.method,
                           params |-> send.message.params,
                           metadata |->
                             [message_type |-> "request",
                              source_agent |-> send.message.source_agent,
                              target_agent |-> target,
                              timestamp |-> send'.message.timestamp]]
          IN  IF "http_endpoint" \in DOMAIN agent_registry[target]
                THEN /\ Len(http_calls') = Len(http_calls) + 1
                     /\ http_calls'[Len(http_calls')].endpoint =
                          agent_registry[target].http_endpoint
                     /\ http_calls'[Len(http_calls')].json = envelope
                     /\ queues' = queues
                     /\ send'.pc = "http_wait"
                ELSE /\ queues'[target] = <<envelope>> \o queues[target]
                     /\ \A a \in AgentNames \ {target} :
                          queues'[a] = queues[a]
                     /\ http_calls' = http_calls
                     /\ send'.pc = "returned"
                     /\ send'.ret.status = "queued"
                     /\ send'.ret.queue \in
                          {"agent_" \o target \o "_queue"}]_vars
  /\ [][(send.pc = "http_wait" /\ send'.pc # "http_wait") =>
          /\ queues' = queues
          /\ Len(http_calls') = Len(http_calls)
          /\ send'.pc = "returned" =>
               /\ send'.ret.result = http_calls'[Len(http_calls')].response
               /\ send'.ret.result \in {"accepted", "ignored"}
               /\ send'.ret.id = send.message.id]_vars
  /\ [](\A n \in 1..MaxSends :
          Cardinality(PostsOf(n)) + Cardinality(QueuedOf(n)) <= 1)

C20_Witness ==
  /\ send.pc = "returned"
  /\ send.message.id = 2
  /\ send.ret = [jsonrpc |-> "2.0", id |-> 2, result |-> "accepted"]
  /\ Len(http_calls) = 1
  /\ http_calls[1].endpoint = "/api/v1/agents/scheduler/a2a"
  /\ Len(queues["notifier"]) = 1
  /\ queues["notifier"][1].id = 1
  /\ queues["scheduler"] = <<>>

\* ------------------------------------------------------------------ C21
\* the posts and the queued envelopes of message n addressed to a
AttemptsTo(a, n) ==
  Cardinality({k \in 1..Len(http_calls) :
                 /\ http_calls[k].json.id = n
                 /\ http_calls[k].json.metadata.target_agent = a})
    + Cardinality({k \in 1..Len(queues[a]) : queues[a][k].id = n})

FailedRecipients ==
  {a \in DOMAIN send.results : "error" \in DOMAIN send.results[a]}

C23_TransportFailurePropagates ==
  [][(\/ send.pc = "http_wait"
           /\ http_calls'[Len(http_calls)].response = "error"
      \/ send.pc = "send_message"
           /\ send.message.target_agent \in DOMAIN agent_registry
           /\ send'.pc # "send_message"
           /\ http_calls' = http_calls /\ queues' = queues)
       => /\ send'.pc = "raised"
          /\ send'.ret = NoResult
          /\ send'.exc.kind \in {"HTTPError", "ConnectionError"}
          /\ send'.exc.kind = "HTTPError" <=> send.pc = "http_wait"
          /\ Len(http_calls') = Len(http_calls)
          /\ queues' = queues]_vars

\* both kinds of transport failure have reached a caller
C23_Witness ==
  /\ send.pc = "raised"
  /\ send.exc.kind = "ConnectionError"
  /\ send.message.target_agent \in DOMAIN agent_registry
  /\ \E k \in 1..Len(http_calls) : http_calls[k].response = "error"

C25_ReceiveLoopRuns ==
  /\ [][listen.pc # "off" =>
          listen'.pc \in {"poll", "yielded", "sleep", "sleep_error"}]_vars
  /\ [][(listen.pc \in {"yielded", "sleep", "sleep_error"}
           /\ listen'.pc # listen.pc) =>
          listen'.pc = IF listen.pc = "yielded" THEN "sleep" ELSE "poll"]_vars
  /\ (listen.pc = "sleep") ~> (listen.pc = "poll")
  /\ (listen.pc = "sleep_error") ~> (listen.pc = "poll")
  /\ (listen.pc = "yielded") ~> (listen.pc = "poll")
  /\ (listen.pc = "poll") ~> (listen.pc # "poll")

\* the loop is at its next poll after an envelope was delivered and a
\* later poll raised
C25_Witness ==
  /\ listen.pc = "poll"
  /\ listen.log = "Error receiving message"
  /\ Len(listen.delivered) >= 1

\* ------------------------------------------------------------------ C26
\* C26: when the body of the listener ends for a delivered envelope, with
\* a warning because the agent has no handler for its method or with the
\* logged error of a handler that raised, no queue has changed and
\* nothing was posted, so the envelope is gone: it is in no queue and it
\* is never delivered a second time; and the listener is back in its
\* loop.
C26_UnhandledIsDropped ==
  /\ [][(listen.pc = "yielded" /\ listen'.pc # "yielded") =>
          /\ listen'.pc = "sleep"
          /\ listen'.log = "No handler for A2A method"
               <=> listen.message.method \notin listen.handlers
          /\ queues' = queues
          /\ http_calls' = http_calls]_vars
  /\ [](\A i, j \in 1..Len(listen.delivered) :
          listen.delivered[i] = listen.delivered[j] => i = j)
  /\ [](\A i \in 1..Len(listen.delivered) :
          \A a \in AgentNames : \A k \in 1..Len(queues[a]) :
            queues[a][k].id # listen.delivered[i])

\* an envelope without handler was dropped and the listener polls again
C26_Witness ==
  /\ listen.pc = "poll"
  /\ listen.log = "No handler for A2A method"
  /\ listen.delivered = <<1>>
  /\ queues[Listener] = <<>>

\* ------------------------------------------------------------------ C27
\* the keys of the context step i is to be invoked with
C27_Context(i) ==
  CASE i = 1 -> {"employee_data", "employee_id"}
    [] i = 2 -> {"employee_data", "employee_id", "validation_result"}
    [] i = 3 -> {"employee_data", "employee_id", "validation_result",
                 "account_setup_result", "account_data", "username",
                 "permissions"}
    [] i = 4 -> {"employee_data", "employee_id", "validation_result",
                 "account_setup_result", "account_data", "username",
                 "permissions", "scheduling_result", "calendar_data"}

\* C27: from the moment step i is invoked until its result is merged or
\* its failure ends the run, the context holds the subject's data and
\* id, <name>_result of every earlier step and the keys promoted from
\* account_setup and scheduling if they are earlier steps, and nothing
\* of step i itself; a key once in the context stays in it.
C27_ContextAccumulates ==
  /\ [](\A t \in Tasks :
          pc[t] \in {"process", "log_success", "log_failed",
                     "step_complete", "step_except"} =>
            accumulated_data[t] = C27_Context(step[t]))
  /\ [](\A t \in Tasks :
          (ret[t].kind = "raise" /\ workflow_id[t] # NULL) =>
            accumulated_data[t] = C27_Context(step[t]))
  /\ [][\A t \in Tasks :
          accumulated_data[t] \subseteq accumulated_data'[t]]_vars

\* the last step is invoked with everything the first three have merged
C27_Witness ==
  \E t \in Tasks :
    /\ pc[t] = "process"
    /\ step[t] = NSteps
    /\ process_calls[t] = <<"validation", "account_setup", "scheduling">>
    /\ accumulated_data[t] = C27_Context(4)

\* ------------------------------------------------------------------ C28
\* C28: when the agent of step i is missing or has no execute, the check
\* raises with the status at i's in-progress value and without a call of
\* process or a record; the run then ends raising that error to the
\* caller with the workflow failed, at step i (no later step begun), with
\* process called once for each earlier step and never for i, and with
\* records of the earlier steps only; the loop moves to a next step only
\* from a step whose process was called and did not raise.
C28_MissingAgentAborts ==
  /\ [][\A t \in Tasks :
          (step[t] >= 1 /\ step'[t] # step[t]) =>
            /\ step'[t] = step[t] + 1
            /\ Len(process_calls[t]) = step[t]
            /\ exc[t] = NoExc]_vars
  /\ [][\A t \in Tasks :
          (pc[t] = "step_begin" /\ pc'[t] = "step_except") =>
            /\ workflows'[workflow_id[t]].status = StatusSequence[2 * step[t]]
            /\ exc'[t].kind = "ValueError"
            /\ process_calls' = process_calls
            /\ agent_logs' = agent_logs]_vars
  /\ [](\A t \in Tasks :
          exc[t].kind = "ValueError" =>
            /\ pc[t] \in {"step_except", "start_except", "raised"}
            /\ process_calls[t] = SubSeq(StepSequence, 1, step[t] - 1)
            /\ Len(LogsOf(workflow_id[t])) = step[t] - 1
            /\ \A k \in 1..Len(LogsOf(workflow_id[t])) :
                 /\ LogsOf(workflow_id[t])[k].agent_type = AgentSequence[k]
                 /\ LogsOf(workflow_id[t])[k].status = "success"
            /\ pc[t] \in {"start_except", "raised"} =>
                 workflows[workflow_id[t]].status = "failed"
            /\ pc[t] = "raised" =>
                 /\ ret[t].kind = "raise"
                 /\ ret[t].exc = exc[t])

\* a run aborted at its third step because the scheduler is missing
C28_Witness ==
  \E t \in Tasks :
    /\ pc[t] = "raised"
    /\ exc[t].kind = "ValueError"
    /\ step[t] = 3
    /\ process_calls[t] = <<"validation", "account_setup">>
    /\ workflows[workflow_id[t]].status = "failed"

\* ------------------------------------------------------------------ C29
\* C29: when the insert of the workflow fails after the employee was
\* inserted, both tables are left as they were; the run then raises that
\* error to its caller without writing a status, and at its end the
\* employee row is in the store, no workflow references it, no step was
\* begun, no process was called and no record was written.
C29_OrphanSubject ==
  /\ [][\A t \in Tasks :
          (pc[t] = "create_workflow" /\ pc'[t] = "start_except") =>
            /\ employees' = employees
            /\ workflows' = workflows
            /\ workflow_id'[t] = NULL]_vars
  /\ [][\A t \in Tasks :
          (pc[t] = "start_except" /\ pc'[t] = "raised"
             /\ workflow_id[t] = NULL) =>
            workflows' = workflows]_vars
  /\ [](\A t \in Tasks :
          (pc[t] \in {"start_except", "raised"} /\ employee_id[t] # NULL
             /\ workflow_id[t] = NULL) =>
            /\ \E e \in employees : e.id = employee_id[t]
            /\ \A w \in DOMAIN workflows :
                 workflows[w].employee_id # employee_id[t]
            /\ step[t] = 0
            /\ process_calls[t] = <<>>
            /\ \A w \in DOMAIN agent_logs : agent_logs[w] = <<>>
            /\ pc[t] = "raised" =>
                 /\ ret[t].kind = "raise"
                 /\ ret[t].exc = OperationalError)

\* the run has raised and left an employee without workflow
C29_Witness ==
  \E t \in Tasks :
    /\ pc[t] = "raised"
    /\ employee_id[t] # NULL
    /\ workflow_id[t] = NULL
    /\ ret[t].exc = OperationalError
    /\ employees # {}
    /\ DOMAIN workflows = {}

\* ------------------------------------------------------------------ C30
\* C30: at the end of a run the stored status of its workflow is
\* "completed" if the run returned and "failed" if it raised after the
\* workflow was created, also when writes of the status fail.
C30_StoredStatusMatchesOutcome ==
  \A t \in Tasks :
    /\ pc[t] = "returned" =>
         workflows[workflow_id[t]].status = "completed"
    /\ (pc[t] = "raised" /\ workflow_id[t] # NULL) =>
         workflows[workflow_id[t]].status = "failed"

\* ------------------------------------------------------------------ C31
\* C31: a broadcast ends by returning, also when register_agent has run
\* while it was suspended at a post, and its result map then has a key
\* for every name but the source that the registry held when it started.
C31_BroadcastSurvivesRegistration ==
  [][(send.pc = "broadcast_loop" /\ send'.pc \in {"returned", "raised"}) =>
       /\ send'.pc = "returned"
       /\ Cardinality(DOMAIN send'.ret.broadcast_results
                        \cup {send.message.source_agent}) >= send.size]_vars

\* ------------------------------------------------------------------ C32
\* C32: every envelope of a broadcast that is posted to a recipient or
\* put on a recipient's queue has no target.
C32_BroadcastEnvelopeHasNoTarget ==
  /\ \A k \in 1..Len(http_calls) :
       http_calls[k].json.method = "broadcast_event" =>
         http_calls[k].json.metadata.target_agent = NoTarget
  /\ \A a \in AgentNames : \A k \in 1..Len(queues[a]) :
       queues[a][k].method = "broadcast_event" =>
         queues[a][k].metadata.target_agent = NoTarget

\* ------------------------------------------------------------------ C33
\* C33: a call of get_workflow_status changes no row of employees,
\* onboarding_workflows or agent_logs.  For an id with a row it returns
\* that row's status and current_step and one entry per record of the
\* workflow, in the order of their creation; for an id without a row it
\* raises the not-found error.
C33_StatusIsReadOnlyProjection ==
  [][query' # query =>
       LET w == query'.workflow_id
       IN  /\ employees' = employees
           /\ workflows' = workflows
           /\ agent_logs' = agent_logs
           /\ IF w \in DOMAIN workflows
                THEN /\ query'.pc = "returned"
                     /\ query'.ret.status = workflows[w].status
                     /\ query'.ret.current_step = workflows[w].current_step
                     /\ Len(query'.ret.logs) = Len(agent_logs[w])
                     /\ \A k \in 1..Len(agent_logs[w]) :
                          /\ query'.ret.logs[k].agent_type
                               = agent_logs[w][k].agent_type
                          /\ query'.ret.logs[k].status
                               = agent_logs[w][k].status
                ELSE /\ query'.pc = "raised"
                     /\ query'.exc.kind = "ValueError"
                     /\ query'.ret = NoStatus]_vars

\* the status of a run that failed at its third step was read, with the
\* three records in order
C33_Witness ==
  /\ query.pc = "returned"
  /\ query.ret.status = "failed"
  /\ Len(query.ret.logs) = 3
  /\ query.ret.logs[1].agent_type = "validator"
  /\ query.ret.logs[3].agent_type = "scheduler"
  /\ query.ret.logs[3].status = "failed"

\* ------------------------------------------------------------------ C34
\* the shape of a value: its nesting of lists and dicts with their
\* lengths and keys, the leaves left out
RECURSIVE Shape(_)
Shape(x) ==
  CASE x.type = "dict" -> Dict([k \in DOMAIN x.items |-> Shape(x.items[k])])
    [] x.type = "list" -> List([i \in 1..Len(x.elems) |-> Shape(x.elems[i])])
    [] OTHER -> "leaf"

\* the leaves of a value, at any depth
RECURSIVE LeavesOf(_)
LeavesOf(x) ==
  CASE x.type = "dict" -> UNION {LeavesOf(x.items[k]) : k \in DOMAIN x.items}
    [] x.type = "list" ->
         UNION {LeavesOf(x.elems[i]) : i \in 1..Len(x.elems)}
    [] OTHER -> {x}

\* the leaf a leaf is to become
C34_Text(l) ==
  IF l.type \in {"UUID", "datetime"} THEN [type |-> "str", v |-> l.v] ELSE l

\* C34: the value returned for data has the shape and keys of data, its
\* leaves are the leaves of data with every identifier and timestamp
\* replaced by its text and the others as they were, no identifier or
\* timestamp is left at any depth, and serializing the returned value
\* returns it unchanged.
C34_SerializeIsRecursive ==
  /\ ser.pc = "once" =>
       /\ Shape(ser.out) = Shape(ser.data)
       /\ LeavesOf(ser.out) = {C34_Text(l) : l \in LeavesOf(ser.data)}
       /\ \A l \in LeavesOf(ser.out) : l.type \notin {"UUID", "datetime"}
  /\ ser.pc = "twice" => ser.out = ser.data

\* the data of the repository's test went through twice
C34_Witness ==
  /\ ser.pc = "twice"
  /\ ser.out.type = "dict"
  /\ DOMAIN ser.out.items = {"employee_id", "nested_dict", "uuid_list"}
  /\ ser.out.items["uuid_list"].elems[2] = [type |-> "str", v |-> "6f1c"]
  /\ ser.out.items["nested_dict"].items["another_uuid"].type = "str"

\* ------------------------------------------------------------------ C35
\* the envelope call_agent sends to the listening agent as its n-th
\* message, stamped by send_message
C35_Sent(n) ==
  [id |-> n, method |-> "account_created_notification",
   params |-> "employee_id", message_type |-> "request",
   source_agent |-> "account_setup", target_agent |-> "scheduler",
   timestamp |-> n]

\* C35: the receive loop yields the envelopes of its queue in the order
\* in which they were sent: an envelope is yielded only when no envelope
\* sent before it is left in the queue, so the yielded ids increase; and
\* the yielded envelope has the id, method, params, kind, source, target
\* and timestamp it was sent with.
C35_QueueIsFifo ==
  /\ [][listen'.delivered # listen.delivered =>
          /\ listen'.message = C35_Sent(listen'.message.id)
          /\ listen'.delivered = Append(listen.delivered, listen'.message.id)
          /\ \A k \in 1..Len(queues'[Listener]) :
               queues'[Listener][k].id > listen'.message.id]_vars
  /\ [](\A i, j \in 1..Len(listen.delivered) :
          i < j => listen.delivered[i] < listen.delivered[j])

\* two envelopes were queued before the first was polled, and both were
\* yielded
C35_Witness ==
  /\ listen.delivered = <<1, 2>>
  /\ listen.pc = "yielded"
  /\ listen.message = C35_Sent(2)
  /\ sent = 2

\* ------------------------------------------------------------------ C36
\* C36: from its call to its end, send_message changes nothing of the
\* caller's envelope but the timestamp; so the envelope of a broadcast
\* that has ended still has no target.
C36_EnvelopeKeepsItsFields ==
  /\ [][send.pc \in {"send_message", "broadcast_loop", "broadcast_http_wait",
                     "http_wait"} =>
          send'.message =
            [send.message EXCEPT !.timestamp = send'.message.timestamp]]_vars
  /\ []((send.pc \in {"returned", "raised"}
           /\ send.message.method = "broadcast_event") =>
          send.message.target_agent = NoTarget)

\* ------------------------------------------------------------------ C37
\* C37: when the call of the scheduler inside account_setup fails, process
\* returns the step's result and raises nothing; the record of the step
\* is written with status success, and the run goes on to call the
\* process of scheduling.
C37_NotifyFailureIsContained ==
  /\ [][\A t \in Tasks :
          notify'[t] # notify[t] =>
            /\ step[t] = 2
            /\ pc'[t] = "log_success"
            /\ result'[t] = [of |-> "account_setup", value |-> "done"]
            /\ exc'[t] = NoExc]_vars
  /\ [](\A t \in Tasks :
          notify[t] # "none" =>
            /\ step[t] = 2 => pc[t] \in {"log_success", "step_complete"}
            /\ pc[t] # "log_success" =>
                 /\ Len(LogsOf(workflow_id[t])) >= 2
                 /\ LogsOf(workflow_id[t])[2].agent_type = "account_setup"
                 /\ LogsOf(workflow_id[t])[2].status = "success"
            /\ RunEnded(t) =>
                 /\ Len(process_calls[t]) >= 3
                 /\ process_calls[t][3] = "scheduling")

\* the scheduling step is invoked after account_setup could not call the
\* scheduler for lack of call_agent
C37_Witness ==
  \E t \in Tasks :
    /\ notify[t] = "AttributeError"
    /\ pc[t] = "log_success"
    /\ step[t] = 3
    /\ LogsOf(workflow_id[t])[2].status = "success"

\* ------------------------------------------------------------------ C38
\* the ids yielded by the two receive loops of the listening agent's queue
C38_Delivered == listen.delivered \o rival.delivered

\* C38: an envelope is yielded at most once, also with two receive loops
\* on the same queue: no id is yielded twice, by one loop or by both; a
\* round of a loop that takes a payload shortens the queue by exactly
\* that payload and the other loop yields nothing in that step; an id
\* that was yielded is in no queue; and the queue grows only by the
\* envelope of a send, never by one that a loop has taken, whatever the
\* outcome of decoding or handling it.
C38_DeliveredAtMostOnce ==
  /\ [](\A i, j \in 1..Len(C38_Delivered) :
          C38_Delivered[i] = C38_Delivered[j] => i = j)
  /\ [](\A i \in 1..Len(C38_Delivered) :
          \A a \in AgentNames : \A k \in 1..Len(queues[a]) :
            queues[a][k].id # C38_Delivered[i])
  /\ [][/\ (listen'.delivered # listen.delivered
              \/ rival'.delivered # rival.delivered) =>
             /\ listen'.delivered = listen.delivered
                  \/ rival'.delivered = rival.delivered
             /\ Len(queues'[Listener]) = Len(queues[Listener]) - 1
        /\ (listen.pc = "yielded" \/ rival.pc = "yielded") =>
             \A a \in AgentNames : Len(queues'[a]) > Len(queues[a]) =>
               /\ send.pc = "send_message"
               /\ queues'[a] = <<ToDict(send'.message)>> \o queues[a]
        /\ \A a \in AgentNames :
             Len(queues'[a]) < Len(queues[a]) =>
               /\ a = Listener
               /\ queues'[a] = SubSeq(queues[a], 1, Len(queues[a]) - 1)
               /\ listen'.pc \in {"yielded"} \/ rival'.pc \in {"yielded", "sleep"}
       ]_vars

\* two envelopes were queued while both loops polled, and each loop has
\* yielded one of them
C38_Witness ==
  /\ Len(listen.delivered) = 1
  /\ Len(rival.delivered) = 1
  /\ listen.pc = "yielded"
  /\ rival.pc = "yielded"
  /\ queues[Listener] = <<>>

\* ------------------------------------------------------------------ C39
\* the info A2AAgent.__init__ registers the listening agent with
C39_Joined ==
  /\ Listener \in DOMAIN agent_registry
  /\ agent_registry[Listener] =
       [name |-> Listener, http_endpoint |-> "/api/v1/agents/scheduler/a2a"]

\* C39: when send_message has returned for an envelope addressed to the
\* listening agent, which is registered as A2AAgent.__init__ registers it
\* and runs its listener with a handler for the envelope's method, the
\* listener eventually yields that envelope and hands it to the handler.
C39_DirectMessageIsHandled ==
  \A n \in 1..MaxSends :
    (/\ send.pc = "returned"
     /\ send.message.id = n
     /\ send.message.target_agent = Listener
     /\ C39_Joined
     /\ listen.pc # "off"
     /\ send.message.method \in listen.handlers)
    ~> (/\ listen.message.id = n
        /\ listen.log \in {"handled", "Error handling A2A message"})

====
